---- MODULE Spec2Model ----
(***************************************************************************)
(* Refresh coordination of the management console's auth-files and         *)
(* provider pages: the polling tasks (loadKeyStats, loadSessionBindings),  *)
(* the automatic and manual per-file quota refresh of AuthFilesPage.tsx,   *)
(* and the batch Antigravity quota refresh (loadAntigravityQuota with      *)
(* fetchAntigravityQuota) of the quota-card revision of the page.          *)
(*                                                                         *)
(* The browser is single threaded: every action below is one run of a      *)
(* handler from an event (click, timer tick, response arrival) to its      *)
(* next await, together with the React effects that the state change       *)
(* triggers.                                                               *)
(***************************************************************************)
EXTENDS Integers, Sequences, FiniteSets, TLC

VARIABLES
  \* ---- polling tasks (AiProvidersPage.tsx / AuthFilesPage.tsx) ----
  loadingKeyStatsRef,     \* useRef(false): in-flight guard of loadKeyStats
  usageInFlight,          \* loadKeyStats invocations awaiting usageApi.getUsage()
  statsInFlight,          \* loadKeyStats invocations awaiting usageApi.getKeyStats()
  keyStats,               \* useState: the stats snapshot last stored
  usageDetails,           \* useState: the usage details last stored
  keyStatsLastCall,       \* history: caller and fate of the last loadKeyStats call
  keyStatsLastOutcome,    \* history: how the last finished invocation ended
  sessionInFlight,        \* listSessionBindings requests in flight
  sessionBindings,        \* useState: auth ids that have a binding
  sessionBindingsLoaded,  \* useState(false)
  sessionLastCaller,      \* history: who called loadSessionBindings last
  \* ---- AuthFilesPage.tsx: file list and per-file quota refresh ----
  files,                  \* useState<AuthFileItem[]>: listed id -> has antigravity_quota.models
  loading,                \* useState(true)
  listInFlight,           \* authFilesApi.list() requests issued by mount, button, upload
  refreshingQuota,        \* useState<Record<string, boolean>>: ids marked refreshing
  manualCalls,            \* per id: where its manual refresh invocation stands
  autoRuns,               \* running autoRefreshAntigravityQuotas invocations
  serverQuota,            \* backend: the files whose record carries quota models
  \* ---- quota-card revision of the page: batch Antigravity quota ----
  cardFiles,              \* useState<AuthFileItem[]>: names of the listed antigravity files
  cardLoading,            \* useState(true): `loading` of loadFiles
  cardListInFlight,       \* authFilesApi.list() requests in flight
  serverCards,            \* backend: names of the stored antigravity files
  missingAuthIndex,       \* names of the files whose record carries no auth_index
  deleting,               \* useState<string | null>: 0 for null
  deletesInFlight,        \* names with a deleteFile request in flight
  antigravityQuota,       \* useState<Record<string, AntigravityQuotaState>>
  antigravityLoading,     \* useState(false)
  antigravityLoadingScope,\* useState<'page' | 'all' | null>
  antigravityLoadingRef,  \* useRef(false)
  antigravityRequestIdRef,\* useRef(0)
  quotaCalls,             \* loadAntigravityQuota invocations suspended in Promise.all
  quotaIssued,            \* history: invocations that got past the in-flight guard
  lastWrite,              \* history: generation of the last result set written
  quotaRejected           \* history: a loadAntigravityQuota promise rejected

pollVars == <<loadingKeyStatsRef, usageInFlight, statsInFlight, keyStats, usageDetails,
              keyStatsLastCall, keyStatsLastOutcome, sessionInFlight, sessionBindings,
              sessionBindingsLoaded, sessionLastCaller>>

pageVars == <<files, loading, listInFlight, refreshingQuota, manualCalls, autoRuns,
              serverQuota>>

VARIABLES
  fetchState,             \* the fetchAntigravityQuota call under observation
  fetchLog,               \* history: the requests that call made, in order
  fetchCalls              \* calls of fetchAntigravityQuota made so far

fetchVars == <<fetchState, fetchLog, fetchCalls>>

VARIABLES
  pureCall,               \* the call of a helper function under observation
  pureResult              \* what it returned (Unevaluated before it ran)

pureVars == <<pureCall, pureResult>>

VARIABLES
  \* ---- per-item refreshes of the file list (AuthFilesPage.tsx) ----
  fileList,               \* useState<AuthFileItem[]>: the files, as records in list order
  serverFiles,            \* the backend's auth files
  itemCalls,              \* per button and auth id: where its handler stands
  deleteCalls,            \* names whose handleDelete awaits the delete request
  returnedRecord,         \* history: the record last returned for an auth id
  removedNames,           \* history: the names that left the list
  reloadApplied,          \* history: a fallback reload has replaced the list
  \* ---- OAuth excluded models (AuthFilesPage.tsx) ----
  excluded,               \* useState<Record<string, string[]>>({})
  excludedError,          \* useState<'unsupported' | null>(null)
  excludedUnsupportedRef, \* useRef(false)
  excludedInFlight,       \* loadExcluded invocations awaiting their request
  excludedCalls,          \* loadExcluded invocations made so far
  warningsShown,          \* history: 'upgrade required' notifications shown
  \* ---- OAuth model mappings (oauthCallbackSupport.test.ts) ----
  modelMappings,          \* useState<Record<string, ...>>({})
  modelMappingsError,     \* useState<'unsupported' | null>(null)
  mappingsUnsupportedRef, \* useRef(false)
  mappingsInFlight,       \* loadModelMappings invocations awaiting their request
  mappingsCalls,          \* loadModelMappings invocations made so far
  mappingWarningsShown    \* history: mappings 'upgrade required' notifications shown

mergeVars == <<fileList, serverFiles, itemCalls, deleteCalls, returnedRecord, removedNames,
               reloadApplied>>

excludedOnlyVars == <<excluded, excludedError, excludedUnsupportedRef, excludedInFlight,
                      excludedCalls, warningsShown>>

mappingsVars == <<modelMappings, modelMappingsError, mappingsUnsupportedRef, mappingsInFlight,
                  mappingsCalls, mappingWarningsShown>>

excludedVars == <<excludedOnlyVars, mappingsVars>>

cardVars == <<cardFiles, cardLoading, cardListInFlight, serverCards, missingAuthIndex,
              deleting, deletesInFlight, antigravityQuota, antigravityLoading,
              antigravityLoadingScope, antigravityLoadingRef, antigravityRequestIdRef,
              quotaCalls, quotaIssued, lastWrite, quotaRejected>>

VARIABLES
  \* ---- OpenAI connectivity test (AiProvidersPage.tsx) ----
  modal,                  \* useState<ProviderModal | null>(null): "null" or "openai"
  openaiAvailableModels,  \* useMemo over openaiForm.modelEntries: the trimmed names
  openaiTestModel,        \* useState('')
  openaiTestStatus,       \* useState<'idle' | 'loading' | 'success' | 'error'>('idle')
  openaiTestMessage,      \* useState('')
  testsInFlight,          \* apiCallApi.request calls of the test not yet settled
  testCalls,              \* requests the test has issued so far
  lastTestOutcome         \* history: how the request settled last has ended

testVars == <<modal, openaiAvailableModels, openaiTestModel, openaiTestStatus,
              openaiTestMessage, testsInFlight, testCalls, lastTestOutcome>>

providerVars == <<testVars>>

VARIABLES
  \* ---- overlapping reloads of the file list (AuthFilesPage.tsx) ----
  shownFiles,             \* useState<AuthFileItem[]>([]): the backend version the list shows
  shownLoading,           \* useState(true)
  backendFiles,           \* the version of the backend's auth files
  listRequests            \* the authFilesApi.list() calls, in the order they were issued

reloadVars == <<shownFiles, shownLoading, backendFiles, listRequests>>

VARIABLES
  \* ---- enabling and disabling provider configs (AiProvidersPage.tsx) ----
  providerKeys,           \* geminiKeys, codexConfigs, claudeConfigs: useState, by provider
  configStore,            \* the config store's lists (updateConfigValue), by provider
  backendKeys,            \* the lists the backend holds, by provider
  configSwitchingKey,     \* useState<string | null>(null)
  switchCall,             \* the setConfigEnabled call awaiting its save request
  deleteKeyCall,          \* the deleteGemini / deleteProviderEntry call awaiting its request
  switchCalls,            \* setConfigEnabled calls made so far
  lastSwitch,             \* history: the call that settled last and what it found
  savedToggles            \* history: per provider and key, the toggle the backend saved last

switchVars == <<providerKeys, configStore, backendKeys, configSwitchingKey, switchCall,
                deleteKeyCall, switchCalls, lastSwitch, savedToggles>>

VARIABLES
  \* ---- deleting auth files (AuthFilesPage.tsx) ----
  listedFiles,            \* useState<AuthFileItem[]>([]): the names of the files listed
  typeFilter,             \* useState('all'): the type filter of the page
  deletingMarker,         \* useState<string | null>(null): `deleting`
  deletingAll,            \* useState(false)
  singleDeletes,          \* per name: handleDelete calls awaiting their delete request
  deleteAllCall,          \* the handleDeleteAll call under way
  deleteCallsMade,        \* handleDelete and handleDeleteAll calls made so far
  lastNotification,       \* history: the notification shown last
  lastDeleteSettled,      \* history: the delete request that settled last
  filteredOutcomes        \* history: how each delete of the filtered delete-all ended

deleteVars == <<listedFiles, typeFilter, deletingMarker, deletingAll, singleDeletes,
                deleteAllCall, deleteCallsMade, lastNotification, lastDeleteSettled,
                filteredOutcomes>>

VARIABLES
  \* ---- pagination of the auth-file cards (AuthFilesPage.tsx) ----
  cardList,               \* useState<AuthFileItem[]>([]): the numbers of the files listed
  filter,                 \* useState<'all' | string>('all')
  search,                 \* useState('')
  page,                   \* useState(1)
  pageSize                \* useState(9)

pagerVars == <<cardList, filter, search, page, pageSize>>

VARIABLES
  \* ---- the Modal component (components/ui/Modal) ----
  open,                   \* the `open` prop
  onClose,                \* the `onClose` prop: which of the parent's inline callbacks
  isVisible,              \* useState(false)
  isClosing,              \* useState(false)
  closeTimerRef,          \* useRef(null): the close timer and what its callback holds
  effectDeps,             \* [open, isVisible, startClose] the effect last ran with
  onCloseCalls,           \* history: invocations of onClose
  awaitingClose,          \* history: a close click on the open modal not yet answered
  timersScheduled         \* history: timers set since the modal was last opened

modalVars == <<open, onClose, isVisible, isClosing, closeTimerRef, effectDeps, onCloseCalls,
               awaitingClose, timersScheduled>>

VARIABLES
  \* ---- the Ampcode form (AiProvidersPage.tsx) ----
  ampcodeModal,           \* modal?.type === 'ampcode'
  ampcodeModalLoading,    \* useState(false)
  ampcodeLoaded,          \* useState(false)
  ampcodeMappingsDirty,   \* useState(false)
  ampcodeSaving,          \* useState(false)
  formMappings,           \* ampcodeForm.mappingEntries, as the mappings they stand for
  storeMappings,          \* config?.ampcode?.modelMappings in the config store
  serverMappings,         \* the model mappings the backend holds
  ampcodeLoads,           \* getAmpcode requests of openAmpcodeModal in flight
  ampcodeOpens,           \* openAmpcodeModal calls made so far
  saveCall,               \* the saveAmpcode call under way: its closure and its position
  mappingWrites           \* history: saveModelMappings / clearModelMappings calls made

ampcodeVars == <<ampcodeModal, ampcodeModalLoading, ampcodeLoaded, ampcodeMappingsDirty,
                 ampcodeSaving, formMappings, storeMappings, serverMappings, ampcodeLoads,
                 ampcodeOpens, saveCall, mappingWrites>>

panelVars == <<providerVars, reloadVars, switchVars, deleteVars, pagerVars, modalVars, ampcodeVars>>

vars == <<pollVars, pageVars, cardVars, fetchVars, pureVars, mergeVars, excludedVars, panelVars>>

-----------------------------------------------------------------------------
(* Bounds of the model *)

\* Cap on the number of overlapping invocations of one polling task.
MaxPending == 3

\* Auth files known to the backend; the last one is a codex credential, the
\* others are antigravity credentials.
NumFiles == 5

\* Cap on the autoRefreshAntigravityQuotas invocations running at once.
MaxAutoRuns == 2

\* Cap on the list requests of mount, button and upload in flight at once.
MaxListPending == 2

\* Cap on the manual quota refreshes (card buttons) running at once.
MaxManual == 1

\* Antigravity files of the quota-card page.
NumCards == 4

\* Cap on the value of antigravityRequestIdRef.
MaxRequestId == 2

\* Slots for loadAntigravityQuota invocations suspended at once.
MaxQuotaCalls == 2

\* Largest number of quota groups one probe response yields.
MaxGroups == 1

\* Cap on the deleteFile requests in flight at once.
MaxDeletes == 1
MaxFetchCalls == 2
MaxNameLen == 3
MaxIndexLen == 2
MaxIndexNum == 11
MaxEntries == 2
MaxUsedTenths == 1020

\* Handlers of the file cards (refresh, toggle, delete) awaiting a request at once.
MaxItemCalls == 3

\* loadExcluded invocations in one page session.
MaxExcludedCalls == 4

\* openAmpcodeModal calls in one page session.
MaxAmpcodeOpens == 2
\* Saves of the Ampcode form that wrote the mappings, in one page session.
MaxMappingWrites == 2

\* Renders of the parent of a Modal, each passing a new inline onClose.
MaxParentRenders == 4

\* Auth files the backend can list for the paginated cards.
NumPagerFiles == 7

\* handleDelete and handleDeleteAll calls in one page session.
MaxDeleteCalls == 3

\* setConfigEnabled calls in one page session.
MaxSwitchCalls == 3

\* loadFiles invocations in one page session, and uploads changing the backend.
MaxListRequests == 3
MaxUploads == 2

\* Requests issued by the OpenAI connectivity test in one session.
MaxTestCalls == 3

\* Characters of an excluded-model name, and names in an excluded-models list.
MaxModelNameLen == 2
MaxModelNames == 2

-----------------------------------------------------------------------------
(* Polling tasks *)

\* Who calls loadKeyStats: the mount effect, useInterval(240 s), the header
\* refresh button and the end of an upload.
KeyStatsCallers == {"mount", "timer", "button", "upload"}

\* Who calls loadSessionBindings: the mount effect and useInterval(10 s).
SessionCallers == {"mount", "timer"}

\* Usage snapshots the backend may answer with.
UsageSnapshots == {"u1", "u2"}

\* Entries of a session-bindings response: auth ids, "" for a missing auth_id.
BindingEntries == {"", "auth-1", "auth-2"}

\* `if (loadingKeyStatsRef.current) return;`
KeyStatsBusy_never == FALSE
KeyStatsBusy == loadingKeyStatsRef

\* The `finally` of loadKeyStats: the guard after an invocation that ended
\* with `outcome`.
KeyStatsGuardAfter_tryOnly(outcome) == outcome # "ok"
KeyStatsGuardAfter(outcome) == FALSE

\* loadKeyStats up to its first await.
loadKeyStats(caller) ==
  /\ IF KeyStatsBusy
       THEN /\ keyStatsLastCall' = [caller |-> caller, issued |-> FALSE]
            /\ UNCHANGED <<loadingKeyStatsRef, usageInFlight>>
       ELSE /\ usageInFlight + statsInFlight < MaxPending
            /\ loadingKeyStatsRef' = TRUE
            /\ usageInFlight' = usageInFlight + 1
            /\ keyStatsLastCall' = [caller |-> caller, issued |-> TRUE]
  /\ UNCHANGED <<statsInFlight, keyStats, usageDetails, keyStatsLastOutcome>>

\* usageApi.getUsage() resolved: the invocation goes on to await getKeyStats.
getUsageResolved ==
  /\ usageInFlight > 0
  /\ usageInFlight' = usageInFlight - 1
  /\ statsInFlight' = statsInFlight + 1
  /\ UNCHANGED <<loadingKeyStatsRef, keyStats, usageDetails, keyStatsLastCall,
                 keyStatsLastOutcome>>

\* usageApi.getUsage() rejected: catch (silent), finally.
getUsageRejected ==
  /\ usageInFlight > 0
  /\ usageInFlight' = usageInFlight - 1
  /\ loadingKeyStatsRef' = KeyStatsGuardAfter("getUsageThrew")
  /\ keyStatsLastOutcome' = "getUsageThrew"
  /\ UNCHANGED <<statsInFlight, keyStats, usageDetails, keyStatsLastCall>>

\* usageApi.getKeyStats() resolved: setKeyStats, then collectUsageDetails,
\* which either returns (setUsageDetails) or throws into the catch.
getKeyStatsResolved(snapshot, collectThrows) ==
  /\ statsInFlight > 0
  /\ statsInFlight' = statsInFlight - 1
  /\ keyStats' = snapshot
  /\ usageDetails' = IF collectThrows THEN usageDetails ELSE snapshot
  /\ LET outcome == IF collectThrows THEN "collectThrew" ELSE "ok"
     IN /\ loadingKeyStatsRef' = KeyStatsGuardAfter(outcome)
        /\ keyStatsLastOutcome' = outcome
  /\ UNCHANGED <<usageInFlight, keyStatsLastCall>>

\* usageApi.getKeyStats() rejected: catch (silent), finally.
getKeyStatsRejected ==
  /\ statsInFlight > 0
  /\ statsInFlight' = statsInFlight - 1
  /\ loadingKeyStatsRef' = KeyStatsGuardAfter("getKeyStatsThrew")
  /\ keyStatsLastOutcome' = "getKeyStatsThrew"
  /\ UNCHANGED <<usageInFlight, keyStats, usageDetails, keyStatsLastCall>>

\* loadSessionBindings up to its await: there is no guard.
loadSessionBindings(caller) ==
  /\ sessionInFlight < MaxPending
  /\ sessionInFlight' = sessionInFlight + 1
  /\ sessionLastCaller' = caller
  /\ UNCHANGED <<sessionBindings, sessionBindingsLoaded>>

\* listSessionBindings resolved: entries without auth_id are skipped.
listSessionBindingsResolved(bindings) ==
  /\ sessionInFlight > 0
  /\ sessionInFlight' = sessionInFlight - 1
  /\ sessionBindings' = {b \in bindings : b # ""}
  /\ sessionBindingsLoaded' = TRUE
  /\ UNCHANGED sessionLastCaller

\* listSessionBindings rejected: silently ignored.
listSessionBindingsRejected ==
  /\ sessionInFlight > 0
  /\ sessionInFlight' = sessionInFlight - 1
  /\ UNCHANGED <<sessionBindings, sessionBindingsLoaded, sessionLastCaller>>

keyStatsVars == <<loadingKeyStatsRef, usageInFlight, statsInFlight, keyStats,
                  usageDetails, keyStatsLastCall, keyStatsLastOutcome>>
sessionVars == <<sessionInFlight, sessionBindings, sessionBindingsLoaded,
                 sessionLastCaller>>

PollInit ==
  /\ loadingKeyStatsRef = FALSE
  /\ usageInFlight = 0
  /\ statsInFlight = 0
  /\ keyStats = "empty"
  /\ usageDetails = "empty"
  /\ keyStatsLastCall = [caller |-> "none", issued |-> FALSE]
  /\ keyStatsLastOutcome = "none"
  /\ sessionInFlight = 0
  /\ sessionBindings = {}
  /\ sessionBindingsLoaded = FALSE
  /\ sessionLastCaller = "none"

PollNext ==
  \/ \E caller \in KeyStatsCallers :
        loadKeyStats(caller) /\ UNCHANGED <<sessionVars, pageVars, cardVars, fetchVars, pureVars, mergeVars, excludedVars, panelVars>>
  \/ getUsageResolved /\ UNCHANGED <<sessionVars, pageVars, cardVars, fetchVars, pureVars, mergeVars, excludedVars, panelVars>>
  \/ getUsageRejected /\ UNCHANGED <<sessionVars, pageVars, cardVars, fetchVars, pureVars, mergeVars, excludedVars, panelVars>>
  \/ \E u \in UsageSnapshots, c \in BOOLEAN :
        getKeyStatsResolved(u, c) /\ UNCHANGED <<sessionVars, pageVars, cardVars, fetchVars, pureVars, mergeVars, excludedVars, panelVars>>
  \/ getKeyStatsRejected /\ UNCHANGED <<sessionVars, pageVars, cardVars, fetchVars, pureVars, mergeVars, excludedVars, panelVars>>
  \/ \E caller \in SessionCallers :
        loadSessionBindings(caller) /\ UNCHANGED <<keyStatsVars, pageVars, cardVars, fetchVars, pureVars, mergeVars, excludedVars, panelVars>>
  \/ \E b \in SUBSET BindingEntries :
        listSessionBindingsResolved(b) /\ UNCHANGED <<keyStatsVars, pageVars, cardVars, fetchVars, pureVars, mergeVars, excludedVars, panelVars>>
  \/ listSessionBindingsRejected /\ UNCHANGED <<keyStatsVars, pageVars, cardVars, fetchVars, pureVars, mergeVars, excludedVars, panelVars>>

-----------------------------------------------------------------------------
(* AuthFilesPage.tsx: file list, manual and automatic quota refresh *)

\* `const batchSize = 3;`
AutoBatchSize == 3

FileIds == 1..NumFiles

\* toLowerString(f.provider || f.type)
Provider(id) == IF id = NumFiles THEN "codex" ELSE "antigravity"

\* What the backend answers GET /auth-files with: every file, with the
\* quota models it has stored for it.
ListResponse == [id \in FileIds |-> id \in serverQuota]

\* The record a quota refresh returns carries quota models for an
\* antigravity file (a codex record carries codex_quota instead).
UpdatedHasQuota(id) == Provider(id) = "antigravity"

\* The backend stores the record it returns from a quota refresh.
ServerStores(id, hasQuota) ==
  serverQuota' = IF hasQuota THEN serverQuota \cup {id} ELSE serverQuota \ {id}

RECURSIVE SortedSeq(_)
SortedSeq(S) ==
  IF S = {} THEN <<>>
  ELSE LET m == CHOOSE x \in S : \A y \in S : x <= y
       IN <<m>> \o SortedSeq(S \ {m})

\* authFiles.filter(provider === 'antigravity'), in list order.
AntigravityOf(f) == SortedSeq({id \in DOMAIN f : Provider(id) = "antigravity"})

NoRun == [items |-> <<>>, skip |-> {}, i |-> 0, pending |-> {}]

Min(a, b) == IF a < b THEN a ELSE b

\* antigravityFiles.slice(i, i + batchSize)
BatchOf(run) ==
  {run.items[k] : k \in (run.i + 1)..Min(run.i + AutoBatchSize, Len(run.items))}

\* The `for` loop of autoRefreshAntigravityQuotas from batch start run.i on:
\* it issues the requests of the batch (items that already have quota
\* models are skipped) and suspends in Promise.allSettled; a batch with no
\* request settles at once and the loop goes on.
RECURSIVE RunFrom(_)
RunFrom(run) ==
  IF run.i >= Len(run.items) THEN NoRun
  ELSE LET requests == BatchOf(run) \ run.skip
       IN IF requests # {} THEN [run EXCEPT !.pending = requests]
          ELSE RunFrom([run EXCEPT !.i = @ + AutoBatchSize])

\* autoRefreshAntigravityQuotas(authFiles) up to its first await.
autoRefreshAntigravityQuotas(f) ==
  LET items == AntigravityOf(f)
  IN IF Len(items) = 0 THEN NoRun
     ELSE RunFrom([items |-> items, skip |-> {id \in DOMAIN f : f[id]},
                   i |-> 0, pending |-> {}])

AutoSlots == 1..MaxAutoRuns

FreeSlot == CHOOSE s \in AutoSlots : autoRuns[s] = NoRun /\ \A t \in AutoSlots : t < s => autoRuns[t] # NoRun

\* useEffect(..., [files.length, loading]): after a render in which one of
\* the two changed, `if (files.length > 0 && !loading) autoRefresh...(files)`.
AutoRefreshEffect(newFiles, newLoading) ==
  LET changed == \/ Cardinality(DOMAIN newFiles) # Cardinality(DOMAIN files)
                 \/ newLoading # loading
      run == autoRefreshAntigravityQuotas(newFiles)
  IN IF changed /\ Cardinality(DOMAIN newFiles) > 0 /\ ~newLoading /\ run # NoRun
       THEN /\ \E s \in AutoSlots : autoRuns[s] = NoRun
            /\ autoRuns' = [autoRuns EXCEPT ![FreeSlot] = run]
       ELSE autoRuns' = autoRuns

\* prev.map((f) => fid === authID ? updated : f)
ReplaceFile(f, id, hasQuota) ==
  [x \in DOMAIN f |-> IF x = id THEN hasQuota ELSE f[x]]

\* loadFiles up to its await, called by the header button (disabled while
\* loading) or at the end of an upload.
loadFiles(caller) ==
  /\ caller = "button" => ~loading
  /\ listInFlight < MaxListPending
  /\ listInFlight' = listInFlight + 1
  /\ loading' = TRUE
  /\ AutoRefreshEffect(files, TRUE)
  /\ UNCHANGED <<files, refreshingQuota, manualCalls, serverQuota>>

\* authFilesApi.list() resolved: setFiles, finally setLoading(false).
listResolved ==
  /\ listInFlight > 0
  /\ listInFlight' = listInFlight - 1
  /\ files' = ListResponse
  /\ loading' = FALSE
  /\ AutoRefreshEffect(ListResponse, FALSE)
  /\ UNCHANGED <<refreshingQuota, manualCalls, serverQuota>>

\* authFilesApi.list() rejected: setError, finally setLoading(false).
listRejected ==
  /\ listInFlight > 0
  /\ listInFlight' = listInFlight - 1
  /\ loading' = FALSE
  /\ AutoRefreshEffect(files, FALSE)
  /\ UNCHANGED <<files, refreshingQuota, manualCalls, serverQuota>>

\* The Button component (components/ui/Button, imported by the page):
\* a button with `loading` set does not take clicks.
RefreshButtonEnabled(id) == id \notin refreshingQuota

\* refreshAntigravityQuota(item) / refreshCodexQuota(item) up to the await
\* of the quota request, from a click on the card's refresh button.
refreshQuota(id) ==
  /\ id \in DOMAIN files
  /\ RefreshButtonEnabled(id)
  /\ manualCalls[id] = "idle"
  /\ Cardinality(refreshingQuota) < MaxManual
  /\ refreshingQuota' = refreshingQuota \cup {id}
  /\ manualCalls' = [manualCalls EXCEPT ![id] = "request"]
  /\ UNCHANGED <<files, loading, listInFlight, autoRuns, serverQuota>>

\* The quota request of a manual refresh resolved with an updated record.
refreshQuotaUpdated(id, hasQuota) ==
  /\ manualCalls[id] = "request"
  /\ ServerStores(id, hasQuota)
  /\ files' = ReplaceFile(files, id, hasQuota)
  /\ refreshingQuota' = refreshingQuota \ {id}
  /\ manualCalls' = [manualCalls EXCEPT ![id] = "idle"]
  /\ UNCHANGED <<loading, listInFlight, autoRuns>>

\* The quota request resolved without a record: `await loadFiles()`.
refreshQuotaNoRecord(id) ==
  /\ manualCalls[id] = "request"
  /\ manualCalls' = [manualCalls EXCEPT ![id] = "reload"]
  /\ loading' = TRUE
  /\ AutoRefreshEffect(files, TRUE)
  /\ UNCHANGED <<files, listInFlight, refreshingQuota, serverQuota>>

\* The quota request rejected: notification, finally.
refreshQuotaRejected(id) ==
  /\ manualCalls[id] = "request"
  /\ refreshingQuota' = refreshingQuota \ {id}
  /\ manualCalls' = [manualCalls EXCEPT ![id] = "idle"]
  /\ UNCHANGED <<files, loading, listInFlight, autoRuns, serverQuota>>

\* The loadFiles awaited by a manual refresh settled (ok: the list request
\* resolved with `response`), then the finally of the refresh.
refreshQuotaReloaded(id, ok) ==
  /\ manualCalls[id] = "reload"
  /\ files' = IF ok THEN ListResponse ELSE files
  /\ loading' = FALSE
  /\ AutoRefreshEffect(IF ok THEN ListResponse ELSE files, FALSE)
  /\ refreshingQuota' = refreshingQuota \ {id}
  /\ manualCalls' = [manualCalls EXCEPT ![id] = "idle"]
  /\ UNCHANGED <<listInFlight, serverQuota>>

\* One request of an auto-refresh batch settled. updated: the response
\* carried a record (with or without quota models); otherwise it carried
\* none or the request failed, which the batch ignores. When it was the
\* last one of its batch the loop goes on with the next batch.
autoRequestSettled(s, id, updated, hasQuota) ==
  /\ id \in autoRuns[s].pending
  /\ ~updated => ~hasQuota
  /\ IF updated THEN ServerStores(id, hasQuota) ELSE UNCHANGED serverQuota
  /\ files' = IF updated THEN ReplaceFile(files, id, hasQuota) ELSE files
  /\ LET left == autoRuns[s].pending \ {id}
         run == [autoRuns[s] EXCEPT !.pending = left]
     IN autoRuns' = [autoRuns EXCEPT ![s] =
                       IF left # {} THEN run
                       ELSE RunFrom([run EXCEPT !.i = @ + AutoBatchSize])]
  /\ UNCHANGED <<loading, listInFlight, refreshingQuota, manualCalls>>

\* After construction: the first render, and the mount effect's loadFiles
\* awaiting its list request.
PageInit ==
  /\ files = [id \in {} |-> FALSE]
  /\ loading = TRUE
  /\ listInFlight = 1
  /\ refreshingQuota = {}
  /\ manualCalls = [id \in FileIds |-> "idle"]
  /\ autoRuns = [s \in AutoSlots |-> NoRun]
  /\ serverQuota \in {{}, {2}}

PageNext ==
  \/ \E caller \in {"button", "upload"} : loadFiles(caller) /\ UNCHANGED <<pollVars, cardVars, fetchVars, pureVars, mergeVars, excludedVars, panelVars>>
  \/ listResolved /\ UNCHANGED <<pollVars, cardVars, fetchVars, pureVars, mergeVars, excludedVars, panelVars>>
  \/ listRejected /\ UNCHANGED <<pollVars, cardVars, fetchVars, pureVars, mergeVars, excludedVars, panelVars>>
  \/ \E id \in FileIds : refreshQuota(id) /\ UNCHANGED <<pollVars, cardVars, fetchVars, pureVars, mergeVars, excludedVars, panelVars>>
  \/ \E id \in FileIds : refreshQuotaUpdated(id, UpdatedHasQuota(id)) /\ UNCHANGED <<pollVars, cardVars, fetchVars, pureVars, mergeVars, excludedVars, panelVars>>
  \/ \E id \in FileIds : refreshQuotaNoRecord(id) /\ UNCHANGED <<pollVars, cardVars, fetchVars, pureVars, mergeVars, excludedVars, panelVars>>
  \/ \E id \in FileIds : refreshQuotaRejected(id) /\ UNCHANGED <<pollVars, cardVars, fetchVars, pureVars, mergeVars, excludedVars, panelVars>>
  \/ \E id \in FileIds, ok \in BOOLEAN : refreshQuotaReloaded(id, ok) /\ UNCHANGED <<pollVars, cardVars, fetchVars, pureVars, mergeVars, excludedVars, panelVars>>
  \/ \E s \in AutoSlots, id \in FileIds, u \in BOOLEAN :
        autoRequestSettled(s, id, u, u /\ UpdatedHasQuota(id)) /\ UNCHANGED <<pollVars, cardVars, fetchVars, pureVars, mergeVars, excludedVars, panelVars>>

\* Quota refresh requests in flight for one auth-file identifier.
RefreshInFlight(id) ==
  Cardinality({s \in AutoSlots : id \in autoRuns[s].pending})
    + (IF manualCalls[id] = "request" THEN 1 ELSE 0)

\* refreshAntigravityQuota requests started by auto-refresh and in flight.
RECURSIVE SumPending(_)
SumPending(S) ==
  IF S = {} THEN 0
  ELSE LET s == CHOOSE x \in S : TRUE
       IN Cardinality(autoRuns[s].pending) + SumPending(S \ {s})
AutoInFlight == SumPending(AutoSlots)


-----------------------------------------------------------------------------
(* Quota-card revision of AuthFilesPage (second file of
   pages/oauthCallbackSupport.test.ts): fetchAntigravityQuota,
   loadAntigravityQuota, the pruning effect, loadFiles and handleDelete *)

ANTIGRAVITY_QUOTA_URLS ==
  <<"daily-cloudcode-pa.googleapis.com", "daily-cloudcode-pa.sandbox.googleapis.com",
    "cloudcode-pa.googleapis.com">>

\* `useState(6)` of antigravityPageSize
AntigravityPageSize == 6

\* const CLOSE_ANIMATION_DURATION = 350
CLOSE_ANIMATION_DURATION == 350

\* const MIN_CARD_PAGE_SIZE = 3; const MAX_CARD_PAGE_SIZE = 30
MIN_CARD_PAGE_SIZE == 3
MAX_CARD_PAGE_SIZE == 30

\* const OPENAI_TEST_TIMEOUT_MS = 30_000
OPENAI_TEST_TIMEOUT_MS == 30000

CardNames == 1..NumCards
QuotaSlots == 1..MaxQuotaCalls

\* The `models` property of a payload object: missing, null, a scalar, an
\* array, or an object; `groups` is the number of quota groups
\* buildAntigravityQuotaGroups makes of the object.
NoModels == [kind |-> "missing", groups |-> 0]
ModelsFields ==
  {[kind |-> k, groups |-> 0] : k \in {"missing", "null", "scalar", "array"}}
    \cup {[kind |-> "object", groups |-> n] : n \in 0..MaxGroups}

\* JSON values: null, a scalar, an array, or an object with its `models`.
NullValue == [kind |-> "null", models |-> NoModels]
JsonValues ==
  {[kind |-> k, models |-> NoModels] : k \in {"null", "scalar", "array"}}
    \cup {[kind |-> "object", models |-> m] : m \in ModelsFields}

\* `result.body ?? result.bodyText`: absent, a string (blank, not JSON, or
\* the text of a JSON value), an object or array, or some other value.
Bodies ==
  {[form |-> f, text |-> "", value |-> NullValue] : f \in {"absent", "other"}}
    \cup {[form |-> "string", text |-> x, value |-> NullValue] : x \in {"blank", "badjson"}}
    \cup {[form |-> "string", text |-> "json", value |-> v] : v \in JsonValues}
    \cup {[form |-> "object", text |-> "", value |-> v] :
            v \in {w \in JsonValues : w.kind \in {"array", "object"}}}

\* What one apiCallApi.request can do: throw, or answer with a status and
\* a body.
Responses ==
  {[status |-> x, body |-> [form |-> "absent", text |-> "", value |-> NullValue]] :
     x \in {"threw", "non2xx"}}
    \cup {[status |-> "2xx", body |-> b] : b \in Bodies}

\* parseAntigravityPayload(payload): null, or the value the payload holds.
parseAntigravityPayload(payload) ==
  CASE payload.form = "absent" -> NullValue
    [] payload.form = "string" ->
         IF payload.text = "json" THEN payload.value ELSE NullValue
    [] payload.form = "object" -> payload.value
    [] OTHER -> NullValue

\* `payload?.models`
PayloadModels(payload) == IF payload.kind = "object" THEN payload.models ELSE NoModels

\* What the loop body of fetchAntigravityQuota makes of a response: a
\* thrown request error, a non-2xx status, a 2xx body without a usable
\* `models` object, a 2xx body whose models yield no quota group, or one
\* yielding `groups` groups.
ResponseOutcome(resp) ==
  IF resp.status # "2xx" THEN [kind |-> resp.status, groups |-> 0]
  ELSE LET models == PayloadModels(parseAntigravityPayload(resp.body))
       IN IF models.kind # "object" THEN [kind |-> "malformed", groups |-> 0]
          ELSE IF models.groups = 0 THEN [kind |-> "nogroups", groups |-> 0]
          ELSE [kind |-> "groups", groups |-> models.groups]

ProbeOutcomes == {ResponseOutcome(resp) : resp \in Responses}

Pending == [status |-> "pending", groups |-> 0, error |-> ""]
Returned(n) == [status |-> "returned", groups |-> n, error |-> ""]
Threw(msg) == [status |-> "threw", groups |-> 0, error |-> msg]
NoIndex == [status |-> "noindex", groups |-> 0, error |-> ""]

\* fetchAntigravityQuota on entry: the request to the first URL is issued.
FetchBegin == [idx |-> 1, hadSuccess |-> FALSE, lastError |-> "", result |-> Pending]

\* After the `for` loop: `if (hadSuccess) return []; throw new Error(lastError || ...)`.
FetchExhausted_alwaysThrows(hadSuccess, lastError) ==
  Threw(IF lastError # "" THEN lastError ELSE "unknown_error")
FetchExhausted(hadSuccess, lastError) ==
  IF hadSuccess THEN Returned(0)
  ELSE Threw(IF lastError # "" THEN lastError ELSE "unknown_error")

\* `continue` (or the end of the catch block): the next URL, or the end of
\* the loop after the last one.
FetchNext(f, hadSuccess, lastError) ==
  IF f.idx = Len(ANTIGRAVITY_QUOTA_URLS)
    THEN [f EXCEPT !.hadSuccess = hadSuccess, !.lastError = lastError,
                   !.result = FetchExhausted(hadSuccess, lastError)]
    ELSE [f EXCEPT !.idx = @ + 1, !.hadSuccess = hadSuccess, !.lastError = lastError]

\* One iteration of the loop of fetchAntigravityQuota, from the arrival of
\* the response to the request it awaits.
FetchStep_noFallback(f, o) ==
  CASE o.kind = "non2xx" -> [f EXCEPT !.lastError = "status_error",
                                       !.result = Threw("status_error")]
    [] o.kind = "threw" -> FetchNext(f, f.hadSuccess, "request_error")
    [] o.kind \in {"malformed", "nogroups"} -> FetchNext(f, TRUE, "empty_models")
    [] o.kind = "groups" -> [f EXCEPT !.hadSuccess = TRUE, !.result = Returned(o.groups)]
FetchStep(f, o) ==
  CASE o.kind = "non2xx" -> FetchNext(f, f.hadSuccess, "status_error")
    [] o.kind = "threw" -> FetchNext(f, f.hadSuccess, "request_error")
    [] o.kind \in {"malformed", "nogroups"} -> FetchNext(f, TRUE, "empty_models")
    [] o.kind = "groups" -> [f EXCEPT !.hadSuccess = TRUE, !.result = Returned(o.groups)]

\* fetchAntigravityQuota run to its end on the responses `os`, one per URL
\* (responses of URLs it never contacts are not read).
RECURSIVE FetchRun(_, _)
FetchRun(f, os) ==
  IF f.result # Pending THEN f.result ELSE FetchRun(FetchStep(f, os[f.idx]), os)

\* Every way a call of fetchAntigravityQuota can end.
FetchResults ==
  {FetchRun(FetchBegin, os) : os \in [1..Len(ANTIGRAVITY_QUOTA_URLS) -> ProbeOutcomes]}

\* The per-file callback of loadAntigravityQuota up to its await: a file
\* without auth index gets its error result at once, without any request.
ItemBegin(name) == IF name \in missingAuthIndex THEN NoIndex ELSE Pending

\* The per-file callback's result object: try { groups } catch { message }.
ItemResult_noCatch(r) ==
  CASE r.status = "returned" -> [status |-> "success", groups |-> r.groups, error |-> ""]
    [] r.status = "threw" -> [status |-> "rejected", groups |-> 0, error |-> r.error]
    [] r.status = "noindex" -> [status |-> "error", groups |-> 0, error |-> "missing_auth_index"]
ItemResult(r) ==
  CASE r.status = "returned" -> [status |-> "success", groups |-> r.groups, error |-> ""]
    [] r.status = "threw" -> [status |-> "error", groups |-> 0, error |-> r.error]
    [] r.status = "noindex" -> [status |-> "error", groups |-> 0, error |-> "missing_auth_index"]

LoadingCell == [status |-> "loading", groups |-> 0, error |-> ""]

NoCall == [requestId |-> 0, targets |-> {}, scope |-> "none", fetch |-> <<>>]

\* antigravityFiles and antigravityPageItems (antigravityPage stays 1 while
\* the list is not longer than a page).
antigravityFiles == cardFiles
antigravityPageItems ==
  LET list == SortedSeq(cardFiles)
  IN {list[k] : k \in 1..Min(AntigravityPageSize, Len(list))}

\* useEffect(..., [antigravityFiles]): cells of files no longer listed go.
PruneQuota(quota, listed) == [n \in DOMAIN quota \cap listed |-> quota[n]]

AllSettled(call) == \A t \in call.targets : call.fetch[t].status # "pending"

AnyRejected(call) ==
  \E t \in call.targets :
     /\ call.fetch[t].status # "pending"
     /\ ItemResult(call.fetch[t]).status = "rejected"

\* The `finally` of loadAntigravityQuota; `now` is the state it runs in.
QuotaFinally(superseded, now) ==
  IF superseded
    THEN /\ antigravityLoading' = now.loading
         /\ antigravityLoadingScope' = now.scope
         /\ antigravityLoadingRef' = now.ref
    ELSE /\ antigravityLoading' = FALSE
         /\ antigravityLoadingScope' = "none"
         /\ antigravityLoadingRef' = FALSE

\* `await Promise.all(...)` and what follows it: the function stays
\* suspended while an item is pending; Promise.all rejects with the first
\* item that rejects; once every item has its result object the results of
\* a generation that is still the current one are written.
QuotaProceed(c, call, baseQuota, superseded, now) ==
  IF AnyRejected(call) THEN
       /\ quotaCalls' = [quotaCalls EXCEPT ![c] = NoCall]
       /\ antigravityQuota' = baseQuota
       /\ QuotaFinally(superseded, now)
       /\ quotaRejected' = TRUE
       /\ UNCHANGED lastWrite
  ELSE IF AllSettled(call) THEN
       /\ quotaCalls' = [quotaCalls EXCEPT ![c] = NoCall]
       /\ IF superseded
            THEN /\ antigravityQuota' = baseQuota
                 /\ UNCHANGED lastWrite
            ELSE /\ antigravityQuota' =
                      [n \in DOMAIN baseQuota \cup call.targets |->
                         IF n \in call.targets THEN ItemResult(call.fetch[n])
                         ELSE baseQuota[n]]
                 /\ lastWrite' = [requestId |-> call.requestId, issued |-> now.issued]
       /\ QuotaFinally(superseded, now)
       /\ UNCHANGED quotaRejected
  ELSE /\ quotaCalls' = [quotaCalls EXCEPT ![c] = call]
       /\ antigravityQuota' = baseQuota
       /\ antigravityLoading' = now.loading
       /\ antigravityLoadingScope' = now.scope
       /\ antigravityLoadingRef' = now.ref
       /\ UNCHANGED <<lastWrite, quotaRejected>>

quotaVars == <<antigravityQuota, antigravityLoading, antigravityLoadingScope,
               antigravityLoadingRef, antigravityRequestIdRef, quotaCalls, quotaIssued,
               lastWrite, quotaRejected>>
listVars == <<cardFiles, cardLoading, cardListInFlight, serverCards, missingAuthIndex,
              deleting, deletesInFlight>>

\* loadAntigravityQuota(targets, scope) up to its await; `busy` is what the
\* in-flight check at its top reads.
QuotaStart(c, targets, scope, busy) ==
  IF busy THEN UNCHANGED quotaVars
  ELSE
    /\ antigravityRequestIdRef < MaxRequestId
    /\ quotaCalls[c] = NoCall
    /\ \A d \in QuotaSlots : d < c => quotaCalls[d] # NoCall
    /\ antigravityRequestIdRef' = antigravityRequestIdRef + 1
    /\ quotaIssued' = quotaIssued + 1
    /\ LET now == [loading |-> TRUE, scope |-> scope, ref |-> TRUE,
                   issued |-> quotaIssued + 1]
       IN IF targets = {}
            THEN /\ QuotaFinally(FALSE, now)
                 /\ UNCHANGED <<quotaCalls, antigravityQuota, lastWrite, quotaRejected>>
            ELSE LET call == [requestId |-> antigravityRequestIdRef + 1,
                              targets |-> targets, scope |-> scope,
                              fetch |-> [t \in targets |-> ItemBegin(t)]]
                     base == [n \in DOMAIN antigravityQuota \cup targets |->
                                IF n \in targets THEN LoadingCell ELSE antigravityQuota[n]]
                 IN QuotaProceed(c, call, base, FALSE, now)

\* The fetchAntigravityQuota call of target t ended with result r: the
\* callback makes its result object, and with the last item Promise.all
\* resolves; `superseded` is what the generation check after the await reads.
QuotaFetchSettled(c, t, r, superseded) ==
  /\ quotaCalls[c] # NoCall
  /\ t \in quotaCalls[c].targets
  /\ quotaCalls[c].fetch[t] = Pending
  /\ LET call == [quotaCalls[c] EXCEPT !.fetch[t] = r]
         now == [loading |-> antigravityLoading, scope |-> antigravityLoadingScope,
                 ref |-> antigravityLoadingRef, issued |-> quotaIssued]
     IN QuotaProceed(c, call, antigravityQuota, superseded, now)
  /\ UNCHANGED <<antigravityRequestIdRef, quotaIssued>>

\* The async function loadAntigravityQuota, invocation slot c: its run from
\* the call (either button) to the await, and its runs from each response.
\* A call can come at any time: the buttons' `disabled` is rendered state,
\* and the function's own in-flight ref is what decides.
loadAntigravityQuota_noGeneration(c) ==
  \/ \E scope \in {"page", "all"} :
        QuotaStart(c, IF scope = "page" THEN antigravityPageItems ELSE antigravityFiles,
                   scope, FALSE)
  \/ \E t \in CardNames, r \in FetchResults : QuotaFetchSettled(c, t, r, FALSE)
loadAntigravityQuota(c) ==
  \/ \E scope \in {"page", "all"} :
        QuotaStart(c, IF scope = "page" THEN antigravityPageItems ELSE antigravityFiles,
                   scope, antigravityLoadingRef)
  \/ \E t \in CardNames, r \in FetchResults :
        QuotaFetchSettled(c, t, r, quotaCalls[c].requestId # antigravityRequestIdRef)

\* loadFiles of this revision up to its await (header button, upload).
cardLoadFiles(caller) ==
  /\ caller = "button" => ~cardLoading
  /\ cardListInFlight < MaxListPending
  /\ cardListInFlight' = cardListInFlight + 1
  /\ cardLoading' = TRUE
  /\ UNCHANGED <<cardFiles, serverCards, missingAuthIndex, deleting, deletesInFlight>>

\* authFilesApi.list() resolved: setFiles, setLoading(false), pruning effect.
cardListResolved ==
  /\ cardListInFlight > 0
  /\ cardListInFlight' = cardListInFlight - 1
  /\ cardFiles' = serverCards
  /\ cardLoading' = FALSE
  /\ antigravityQuota' = PruneQuota(antigravityQuota, serverCards)
  /\ UNCHANGED <<serverCards, missingAuthIndex, deleting, deletesInFlight>>

\* authFilesApi.list() rejected: setError, setLoading(false).
cardListRejected ==
  /\ cardListInFlight > 0
  /\ cardListInFlight' = cardListInFlight - 1
  /\ cardLoading' = FALSE
  /\ UNCHANGED <<cardFiles, serverCards, missingAuthIndex, deleting, deletesInFlight,
                 antigravityQuota>>

\* handleDelete(name) up to its await (the confirm dialog was accepted).
handleDelete(name) ==
  /\ name \in cardFiles
  /\ deleting # name
  /\ name \notin deletesInFlight
  /\ Cardinality(deletesInFlight) < MaxDeletes
  /\ deleting' = name
  /\ deletesInFlight' = deletesInFlight \cup {name}
  /\ UNCHANGED <<cardFiles, cardLoading, cardListInFlight, serverCards, missingAuthIndex,
                 antigravityQuota>>

\* deleteFile resolved: the file leaves the list (pruning effect), finally.
deleteResolved(name) ==
  /\ name \in deletesInFlight
  /\ deletesInFlight' = deletesInFlight \ {name}
  /\ serverCards' = serverCards \ {name}
  /\ cardFiles' = cardFiles \ {name}
  /\ antigravityQuota' = PruneQuota(antigravityQuota, cardFiles \ {name})
  /\ deleting' = 0
  /\ UNCHANGED <<cardLoading, cardListInFlight, missingAuthIndex>>

\* deleteFile rejected: notification, finally.
deleteRejected(name) ==
  /\ name \in deletesInFlight
  /\ deletesInFlight' = deletesInFlight \ {name}
  /\ deleting' = 0
  /\ UNCHANGED <<cardFiles, cardLoading, cardListInFlight, serverCards, missingAuthIndex,
                 antigravityQuota>>

listOnlyVars == <<antigravityLoading, antigravityLoadingScope, antigravityLoadingRef,
                  antigravityRequestIdRef, quotaCalls, quotaIssued, lastWrite, quotaRejected>>

\* After construction: the first render, and the mount effect's loadFiles
\* awaiting its list request.
CardInit ==
  /\ cardFiles = {}
  /\ cardLoading = TRUE
  /\ cardListInFlight = 1
  /\ serverCards = CardNames
  /\ missingAuthIndex \in {{}, {1}}
  /\ deleting = 0
  /\ deletesInFlight = {}
  /\ antigravityQuota = [n \in {} |-> LoadingCell]
  /\ antigravityLoading = FALSE
  /\ antigravityLoadingScope = "none"
  /\ antigravityLoadingRef = FALSE
  /\ antigravityRequestIdRef = 0
  /\ quotaCalls = [c \in QuotaSlots |-> NoCall]
  /\ quotaIssued = 0
  /\ lastWrite = [requestId |-> 0, issued |-> 0]
  /\ quotaRejected = FALSE

CardNext ==
  \/ \E c \in QuotaSlots : loadAntigravityQuota(c) /\ UNCHANGED <<listVars, pollVars, pageVars, fetchVars, pureVars, mergeVars, excludedVars, panelVars>>
  \/ cardLoadFiles("button") /\ UNCHANGED <<quotaVars, pollVars, pageVars, fetchVars, pureVars, mergeVars, excludedVars, panelVars>>
  \/ cardListResolved /\ UNCHANGED <<listOnlyVars, pollVars, pageVars, fetchVars, pureVars, mergeVars, excludedVars, panelVars>>
  \/ cardListRejected /\ UNCHANGED <<listOnlyVars, pollVars, pageVars, fetchVars, pureVars, mergeVars, excludedVars, panelVars>>
  \/ \E n \in CardNames : handleDelete(n) /\ UNCHANGED <<listOnlyVars, pollVars, pageVars, fetchVars, pureVars, mergeVars, excludedVars, panelVars>>
  \/ \E n \in CardNames : deleteResolved(n) /\ UNCHANGED <<listOnlyVars, pollVars, pageVars, fetchVars, pureVars, mergeVars, excludedVars, panelVars>>
  \/ \E n \in CardNames : deleteRejected(n) /\ UNCHANGED <<listOnlyVars, pollVars, pageVars, fetchVars, pureVars, mergeVars, excludedVars, panelVars>>

\* Requests of per-file quota fetches in flight.
FetchesInFlight ==
  Cardinality({<<c, t>> \in QuotaSlots \X CardNames :
                 /\ t \in quotaCalls[c].targets
                 /\ quotaCalls[c].fetch[t] = Pending})

\* The status shown for a file's quota cell: quotaState?.status ?? 'idle'.
CellStatus(quota, n) == IF n \in DOMAIN quota THEN quota[n].status ELSE "idle"


-----------------------------------------------------------------------------
(* One caller of fetchAntigravityQuota, request by request *)

NotCalled == [status |-> "idle", groups |-> 0, error |-> ""]

\* fetchAntigravityQuota(authIndex) up to the await of its first request.
fetchAntigravityQuota ==
  /\ fetchState.result # Pending
  /\ fetchCalls < MaxFetchCalls
  /\ fetchCalls' = fetchCalls + 1
  /\ fetchState' = FetchBegin
  /\ fetchLog' = <<>>

\* The awaited apiCallApi.request settled with resp: one loop iteration.
apiCallSettled(resp) ==
  /\ fetchState.result = Pending
  /\ fetchLog' = Append(fetchLog, [url |-> ANTIGRAVITY_QUOTA_URLS[fetchState.idx],
                                   kind |-> ResponseOutcome(resp).kind,
                                   resp |-> resp])
  /\ fetchState' = FetchStep(fetchState, ResponseOutcome(resp))
  /\ UNCHANGED fetchCalls

FetchInit ==
  /\ fetchState = [idx |-> 0, hadSuccess |-> FALSE, lastError |-> "", result |-> NotCalled]
  /\ fetchLog = <<>>
  /\ fetchCalls = 0

FetchCallNext ==
  \/ fetchAntigravityQuota /\ UNCHANGED <<pollVars, pageVars, cardVars, pureVars, mergeVars, excludedVars, panelVars>>
  \/ \E resp \in Responses : apiCallSettled(resp) /\ UNCHANGED <<pollVars, pageVars, cardVars, pureVars, mergeVars, excludedVars, panelVars>>


-----------------------------------------------------------------------------
(* Helper functions of the pages, each applied to one input *)

Unevaluated == [fn |-> "none"]
PureQuiet == pureCall = [fn |-> "none"] /\ pureResult = Unevaluated

\* Strings are sequences of characters.
RECURSIVE StringsUpTo(_, _)
StringsUpTo(chars, n) ==
  IF n = 0 THEN {<<>>}
  ELSE LET shorter == StringsUpTo(chars, n - 1)
       IN shorter \cup {Append(x, c) : x \in shorter, c \in chars}

IsSpace(c) == c \in {" ", "\n"}

\* String.prototype.trim
RECURSIVE TrimStart(_)
TrimStart(x) == IF x # <<>> /\ IsSpace(Head(x)) THEN TrimStart(Tail(x)) ELSE x
RECURSIVE TrimEnd(_)
TrimEnd(x) ==
  IF x # <<>> /\ IsSpace(x[Len(x)]) THEN TrimEnd(SubSeq(x, 1, Len(x) - 1)) ELSE x
Trim(x) == TrimEnd(TrimStart(x))

Digit(d) == <<"0", "1", "2", "3", "4", "5", "6", "7", "8", "9">>[d + 1]

\* Number.prototype.toString of an integer
RECURSIVE NatToString(_)
NatToString(n) ==
  IF n < 10 THEN <<Digit(n)>> ELSE Append(NatToString(n \div 10), Digit(n % 10))
NumberToString(n) == IF n < 0 THEN <<"-">> \o NatToString(0 - n) ELSE NatToString(n)

\* JavaScript values an auth index field can hold.
Undefined == [type |-> "undefined", num |-> 0, str |-> <<>>]
Null == [type |-> "null", num |-> 0, str |-> <<>>]
Num(n) == [type |-> "number", num |-> n, str |-> <<>>]
Str(x) == [type |-> "string", num |-> 0, str |-> x]
IndexStrings == StringsUpTo({" ", "3"}, MaxIndexLen) \cup {<<" ", "1", "1", " ">>}
RawIndexValues ==
  {Undefined, Null} \cup {[type |-> x, num |-> 0, str |-> <<>>] : x \in {"nan", "infinity", "boolean"}}
    \cup {Num(n) : n \in {-1, 0, 3, MaxIndexNum}}
    \cup {Str(x) : x \in IndexStrings}

\* normalizeAuthIndexValue(value)
normalizeAuthIndexValue_untrimmed(value) ==
  IF value.type = "number" THEN Str(NumberToString(value.num))
  ELSE IF value.type = "string"
         THEN IF Trim(value.str) # <<>> THEN Str(value.str) ELSE Null
  ELSE Null
normalizeAuthIndexValue(value) ==
  IF value.type = "number" THEN Str(NumberToString(value.num))
  ELSE IF value.type = "string"
         THEN LET trimmed == Trim(value.str)
              IN IF trimmed # <<>> THEN Str(trimmed) ELSE Null
  ELSE Null

\* `a ?? b`
Coalesce(a, b) == IF a.type \in {"undefined", "null"} THEN b ELSE a

\* KeyStatBucket values; NoBucket stands for `undefined`.
NoBucket == [success |-> -1, failure |-> -1]
ZeroBucket == [success |-> 0, failure |-> 0]
SourceBuckets == {ZeroBucket, [success |-> 5, failure |-> 1], [success |-> 0, failure |-> 2]}
IndexBuckets == {ZeroBucket, [success |-> 2, failure |-> 0]}

\* Maps of buckets over some of the keys; NoMap stands for a missing map.
NoMap == [defined |-> FALSE, map |-> <<>>]
BucketMaps(keys, buckets) ==
  {NoMap} \cup {[defined |-> TRUE, map |-> m] :
                  m \in UNION {[d -> buckets] : d \in SUBSET keys}}

\* `map?.[key]`
Lookup(m, key) == IF m.defined /\ key \in DOMAIN m.map THEN m.map[key] ELSE NoBucket

\* rawFileName.replace(/\.[^/.]+$/, ''): the first position where a dot is
\* followed, up to the end, by one or more characters other than `/` and `.`.
ExtensionAt(name, k) ==
  /\ name[k] = "."
  /\ k < Len(name)
  /\ \A j \in (k + 1)..Len(name) : name[j] \notin {"/", "."}
StripExtension(name) ==
  IF \E k \in 1..Len(name) : ExtensionAt(name, k)
    THEN LET k == CHOOSE i \in 1..Len(name) :
                    ExtensionAt(name, i) /\ \A j \in 1..(i - 1) : ~ExtensionAt(name, j)
         IN SubSeq(name, 1, k - 1)
    ELSE name

\* `fromName.success > 0 || fromName.failure > 0`
Populated_always(bucket) == TRUE
Populated(bucket) == bucket.success > 0 \/ bucket.failure > 0

\* resolveAuthFileStats(file, stats)
resolveAuthFileStats(file, stats) ==
  LET rawFileName == file.name
      authIndexKey == normalizeAuthIndexValue(Coalesce(file.auth_index, file.authIndex))
      fromIndex == IF authIndexKey = Null THEN NoBucket
                   ELSE Lookup(stats.byAuthIndex, authIndexKey.str)
      fromName == Lookup(stats.bySource, rawFileName)
      nameWithoutExt == StripExtension(rawFileName)
      fromNameWithoutExt == Lookup(stats.bySource, nameWithoutExt)
  IN IF fromIndex # NoBucket THEN fromIndex
     ELSE IF rawFileName # <<>> /\ fromName # NoBucket /\ Populated(fromName) THEN fromName
     ELSE IF /\ rawFileName # <<>>
             /\ nameWithoutExt # <<>> /\ nameWithoutExt # rawFileName
             /\ fromNameWithoutExt # NoBucket /\ Populated(fromNameWithoutExt)
          THEN fromNameWithoutExt
     ELSE ZeroBucket

FileNames == StringsUpTo({"a", ".", "/"}, MaxNameLen) \ {<<>>}
SourceKeys == {<<"a">>, <<"a", ".", "a">>}
IndexKeys == {<<"3">>}

\* A file record's index fields: `auth_index`, or `authIndex` behind it.
IndexFields ==
  {[auth_index |-> v, authIndex |-> Undefined] :
     v \in {Undefined, Null, Num(3), Str(<<" ", "3">>), Str(<<" ", " ">>)}}
    \cup {[auth_index |-> v, authIndex |-> Num(3)] : v \in {Undefined, Null}}

ResolveCallDrawn ==
  \E n \in FileNames, x \in IndexFields,
     bs \in BucketMaps(SourceKeys, SourceBuckets), bi \in BucketMaps(IndexKeys, IndexBuckets) :
    pureCall = [fn |-> "resolveAuthFileStats",
                file |-> [name |-> n, auth_index |-> x.auth_index, authIndex |-> x.authIndex],
                stats |-> [bySource |-> bs, byAuthIndex |-> bi]]

callResolveAuthFileStats ==
  /\ pureCall.fn = "resolveAuthFileStats"
  /\ pureResult = Unevaluated
  /\ pureResult' = [fn |-> pureCall.fn, value |-> resolveAuthFileStats(pureCall.file, pureCall.stats)]
  /\ UNCHANGED pureCall

NormalizeCallDrawn ==
  \E v \in RawIndexValues : pureCall = [fn |-> "normalizeAuthIndexValue", value |-> v]

callNormalizeAuthIndexValue ==
  /\ pureCall.fn = "normalizeAuthIndexValue"
  /\ pureResult = Unevaluated
  /\ pureResult' = [fn |-> pureCall.fn, value |-> normalizeAuthIndexValue(pureCall.value)]
  /\ UNCHANGED pureCall

\* statusBarCache: whether a usage detail is kept for a file, `false` also
\* when the file has no auth index key (no filter is run for it).
usageDetailMatchesFile(file, detail) ==
  LET authIndexKey == normalizeAuthIndexValue(Coalesce(file.auth_index, file.authIndex))
      detailAuthIndex == normalizeAuthIndexValue(detail.auth_index)
  IN /\ authIndexKey # Null
     /\ detailAuthIndex # Null
     /\ detailAuthIndex = authIndexKey

MatchCallDrawn ==
  \E v, w \in RawIndexValues :
    pureCall = [fn |-> "statusBarCache", file |-> [auth_index |-> v, authIndex |-> Undefined],
                detail |-> [auth_index |-> w]]

callStatusBarCache ==
  /\ pureCall.fn = "statusBarCache"
  /\ pureResult = Unevaluated
  /\ pureResult' = [fn |-> pureCall.fn,
                    value |-> usageDetailMatchesFile(pureCall.file, pureCall.detail)]
  /\ UNCHANGED pureCall

\* API keys, and the names usage is recorded under (raw or masked keys).
ApiKeys == {"sk-1", "sk-2"}
StatNames == ApiKeys \cup {"sk-***"}
MaskFns == [ApiKeys \cup {""} -> StatNames]

\* `a || b` on buckets: an object is truthy, undefined is not.
OrElse(a, b) == IF a # NoBucket THEN a ELSE b

\* `keyStats.bySource ?? {}`
SourceMap(stats) ==
  IF stats.bySource.defined THEN stats.bySource
  ELSE [defined |-> TRUE, map |-> <<>>]

\* getStatsBySource(apiKey, stats, maskFn)
getStatsBySource_maskedFirst(apiKey, stats, maskFn) ==
  LET bySource == SourceMap(stats)
      masked == maskFn[apiKey]
  IN OrElse(Lookup(bySource, masked), OrElse(Lookup(bySource, apiKey), ZeroBucket))
getStatsBySource(apiKey, stats, maskFn) ==
  LET bySource == SourceMap(stats)
      masked == maskFn[apiKey]
  IN OrElse(Lookup(bySource, apiKey), OrElse(Lookup(bySource, masked), ZeroBucket))

StatsBySourceCallDrawn ==
  \E k \in ApiKeys, bs \in BucketMaps(StatNames, SourceBuckets), f \in MaskFns :
    pureCall = [fn |-> "getStatsBySource", apiKey |-> k, keyStats |-> [bySource |-> bs],
                maskFn |-> f]

callGetStatsBySource ==
  /\ pureCall.fn = "getStatsBySource"
  /\ pureResult = Unevaluated
  /\ pureResult' = [fn |-> pureCall.fn,
                    value |-> getStatsBySource(pureCall.apiKey, pureCall.keyStats,
                                               pureCall.maskFn)]
  /\ UNCHANGED pureCall

\* The forEach callback of getOpenAIProviderStats: the totals after one
\* more entry (`entry?.apiKey || ''`: an entry without key has "").
AddEntry_keylessCounted(total, entry, bySource, maskFn) ==
  LET key == entry.apiKey
      stats == OrElse(Lookup(bySource, key),
                      OrElse(Lookup(bySource, maskFn[key]), ZeroBucket))
  IN [success |-> total.success + stats.success, failure |-> total.failure + stats.failure]
AddEntry(total, entry, bySource, maskFn) ==
  LET key == entry.apiKey
      stats == OrElse(Lookup(bySource, key),
                      OrElse(Lookup(bySource, maskFn[key]), ZeroBucket))
  IN IF key = "" THEN total
     ELSE [success |-> total.success + stats.success,
           failure |-> total.failure + stats.failure]

RECURSIVE ForEachEntry(_, _, _, _)
ForEachEntry(total, entries, bySource, maskFn) ==
  IF entries = <<>> THEN total
  ELSE ForEachEntry(AddEntry(total, Head(entries), bySource, maskFn), Tail(entries),
                    bySource, maskFn)

\* getOpenAIProviderStats(apiKeyEntries, stats, maskFn)
getOpenAIProviderStats(apiKeyEntries, stats, maskFn) ==
  ForEachEntry(ZeroBucket, IF apiKeyEntries.defined THEN apiKeyEntries.list ELSE <<>>,
               SourceMap(stats), maskFn)

RECURSIVE SeqsUpTo(_, _)
SeqsUpTo(S, n) ==
  IF n = 0 THEN {<<>>}
  ELSE LET shorter == SeqsUpTo(S, n - 1)
       IN shorter \cup {Append(x, e) : x \in shorter, e \in S}

EntryLists(n) ==
  {[defined |-> FALSE, list |-> <<>>]}
    \cup {[defined |-> TRUE, list |-> l] :
            l \in SeqsUpTo({[apiKey |-> k] : k \in ApiKeys \cup {""}}, n)}

ProviderStatsCallDrawn ==
  \E es \in EntryLists(MaxEntries), bs \in BucketMaps(StatNames, SourceBuckets), f \in MaskFns :
    pureCall = [fn |-> "getOpenAIProviderStats", apiKeyEntries |-> es,
                keyStats |-> [bySource |-> bs], maskFn |-> f]

callGetOpenAIProviderStats ==
  /\ pureCall.fn = "getOpenAIProviderStats"
  /\ pureResult = Unevaluated
  /\ pureResult' = [fn |-> pureCall.fn,
                    value |-> getOpenAIProviderStats(pureCall.apiKeyEntries,
                                                     pureCall.keyStats, pureCall.maskFn)]
  /\ UNCHANGED pureCall

\* Percentages are counted in tenths of a percent: Num(275) is 27.5.
Percent(n) == 10 * n

\* Math.round on tenths: the nearest integer, a half going up.
MathRound(x) == ((x + 5) \div 10) * 10

\* `used_percent` values: absent, null, NaN, an infinity, a string, or a
\* finite number.
UsedPercentValues ==
  {Undefined, Null, Str(<<"3">>)}
    \cup {[type |-> x, num |-> 0, str |-> <<>>] : x \in {"nan", "infinity"}}
    \cup {Num(x) : x \in (0 - 20)..MaxUsedTenths}

\* remainingPercentFromUsedPercent(usedPercent) of the page
remainingPercentFromUsedPercent(usedPercent) ==
  IF usedPercent.type # "number" THEN Null
  ELSE LET remaining == MathRound(Percent(100) - usedPercent.num)
       IN IF remaining < 0 THEN Num(0)
          ELSE IF remaining > Percent(100) THEN Num(Percent(100))
          ELSE Num(remaining)

\* remainingFromUsedPercent(used) of the quota-card revision
remainingFromUsedPercent(used) ==
  IF used.type # "number" THEN Null
  ELSE LET left == Percent(100) - used.num
           atMost == IF left < Percent(100) THEN left ELSE Percent(100)
       IN Num(IF atMost > 0 THEN atMost ELSE 0)

RemainingCallDrawn ==
  \E f \in {"remainingPercentFromUsedPercent", "remainingFromUsedPercent"},
     u \in UsedPercentValues :
    pureCall = [fn |-> f, used |-> u]

callRemainingPercentFromUsedPercent ==
  /\ pureCall.fn = "remainingPercentFromUsedPercent"
  /\ pureResult = Unevaluated
  /\ pureResult' = [fn |-> pureCall.fn, value |-> remainingPercentFromUsedPercent(pureCall.used)]
  /\ UNCHANGED pureCall

callRemainingFromUsedPercent ==
  /\ pureCall.fn = "remainingFromUsedPercent"
  /\ pureResult = Unevaluated
  /\ pureResult' = [fn |-> pureCall.fn, value |-> remainingFromUsedPercent(pureCall.used)]
  /\ UNCHANGED pureCall

\* ---- Antigravity quota groups (oauthCallbackSupport.test.ts) ----
\* Remaining fractions are counted in tenths: 7 stands for 0.7.

ANTIGRAVITY_QUOTA_GROUPS ==
  << [id |-> "claude-gpt", label |-> "Claude/GPT", labelFromModel |-> FALSE,
      identifiers |-> <<"claude-sonnet-4-5-thinking", "claude-opus-4-5-thinking",
                        "claude-sonnet-4-5", "gpt-oss-120b-medium">>],
     [id |-> "gemini", label |-> "Gemini", labelFromModel |-> FALSE,
      identifiers |-> <<"gemini-3-pro-high", "gemini-3-pro-low", "gemini-2.5-flash",
                        "gemini-2.5-flash-lite", "rev19-uic3-1p">>],
     [id |-> "gemini-3-flash", label |-> "Gemini 3 Flash", labelFromModel |-> FALSE,
      identifiers |-> <<"gemini-3-flash">>],
     [id |-> "gemini-image", label |-> "gemini-3-pro-image", labelFromModel |-> TRUE,
      identifiers |-> <<"gemini-3-pro-image">>] >>

\* Not-a-number, the result of Number() on text that is no numeral.
NaN == [type |-> "number", num |-> 0, str |-> <<"N", "a", "N">>]

IsDigit(c) == \E d \in 0..9 : Digit(d) = c

DigitOf(c) == CHOOSE d \in 0..9 : Digit(d) = c

RECURSIVE NaturalOf(_)
NaturalOf(x) ==
  IF x = <<>> THEN 0 ELSE 10 * NaturalOf(SubSeq(x, 1, Len(x) - 1)) + DigitOf(x[Len(x)])

AllDigits(x) == x # <<>> /\ \A i \in 1..Len(x) : IsDigit(x[i])

\* Number(text): blank text is 0, a decimal numeral with at most one fractional digit is
\* its value, anything else is NaN.
NumberOfString(x) ==
  LET s == Trim(x)
  IN IF s = <<>> THEN Num(0)
     ELSE IF AllDigits(s) THEN Num(10 * NaturalOf(s))
     ELSE IF /\ Len(s) >= 3
             /\ s[Len(s) - 1] = "."
             /\ AllDigits(SubSeq(s, 1, Len(s) - 2))
             /\ IsDigit(s[Len(s)])
          THEN Num(10 * NaturalOf(SubSeq(s, 1, Len(s) - 2)) + DigitOf(s[Len(s)]))
     ELSE NaN

\* Number(value)
JsNumber(v) ==
  CASE v.type = "number" -> v
    [] v.type = "string" -> NumberOfString(v.str)
    [] v.type = "null" -> Num(0)
    [] OTHER -> NaN

IsFinite(v) == v.type = "number" /\ v # NaN

\* A model's display name: absent, or a text.
NoName == [type |-> "undefined", text |-> ""]
Name(s) == [type |-> "string", text |-> s]

QuotaInfo(remainingFraction, remaining_fraction, remaining, resetTime, reset_time) ==
  [type |-> "object", remainingFraction |-> remainingFraction,
   remaining_fraction |-> remaining_fraction, remaining |-> remaining,
   resetTime |-> resetTime, reset_time |-> reset_time]

EmptyObject == QuotaInfo(Undefined, Undefined, Undefined, Undefined, Undefined)

NoObject == [type |-> "undefined"]

ModelEntry(displayName, quotaInfo, quota_info) ==
  [type |-> "object", displayName |-> displayName, quotaInfo |-> quotaInfo,
   quota_info |-> quota_info]

getAntigravityQuotaInfo(entry) ==
  IF entry.type # "object"
  THEN [remainingFraction |-> Null, resetTime |-> Undefined, displayName |-> NoName]
  ELSE LET quotaInfo == Coalesce(Coalesce(entry.quotaInfo, entry.quota_info), EmptyObject)
           remainingValue ==
             Coalesce(Coalesce(quotaInfo.remainingFraction, quotaInfo.remaining_fraction),
                      quotaInfo.remaining)
           remainingFraction == JsNumber(remainingValue)
           resetValue == Coalesce(quotaInfo.resetTime, quotaInfo.reset_time)
       IN [remainingFraction |-> IF IsFinite(remainingFraction) THEN remainingFraction ELSE Null,
           resetTime |-> IF resetValue.type = "string" THEN resetValue ELSE Undefined,
           displayName |-> IF entry.displayName.type = "string" THEN entry.displayName ELSE NoName]

\* toLowerCase over the texts the payloads below carry; catalog identifiers are lower case.
ToLowerCase(s) ==
  CASE s = "Gemini-3-Pro-High" -> "gemini-3-pro-high"
    [] s = "GEMINI-3-FLASH" -> "gemini-3-flash"
    [] OTHER -> s

NoMatch == [id |-> "", entry |-> NoObject]

\* A models payload is the sequence of its [key, entry] pairs in Object.entries order.
findAntigravityModel_exactOnly(models, identifier) ==
  LET direct == {i \in 1..Len(models) : models[i].key = identifier}
  IN IF direct # {}
     THEN [id |-> identifier, entry |-> models[CHOOSE i \in direct : TRUE].entry]
     ELSE NoMatch

findAntigravityModel(models, identifier) ==
  LET direct == {i \in 1..Len(models) : models[i].key = identifier}
      named == {i \in 1..Len(models) :
                  LET entry == models[i].entry
                      name == IF entry.displayName.type = "string"
                              THEN entry.displayName.text ELSE ""
                  IN ToLowerCase(name) = ToLowerCase(identifier)}
  IN IF direct # {}
     THEN [id |-> identifier, entry |-> models[CHOOSE i \in direct : TRUE].entry]
     ELSE IF named # {}
     THEN LET match == CHOOSE i \in named : \A j \in named : i <= j
          IN [id |-> models[match].key, entry |-> models[match].entry]
     ELSE NoMatch

\* Array.prototype.map over a sequence
MapSeq(Op(_), s) == [i \in 1..Len(s) |-> Op(s[i])]

Truthy(v) == v.type = "string" /\ v.str # <<>>

\* values.find(Boolean) over strings and undefined
FindTruthy(values) ==
  LET hits == {i \in 1..Len(values) : Truthy(values[i])}
  IN IF hits = {} THEN Undefined ELSE values[CHOOSE i \in hits : \A j \in hits : i <= j]

FindName(names) ==
  LET hits == {i \in 1..Len(names) : names[i].type = "string" /\ names[i].text # ""}
  IN IF hits = {} THEN NoName ELSE names[CHOOSE i \in hits : \A j \in hits : i <= j]

RECURSIVE MathMin(_)
MathMin(numbers) ==
  IF Len(numbers) = 1 THEN numbers[1]
  ELSE LET rest == MathMin(Tail(numbers))
       IN IF numbers[1] < rest THEN numbers[1] ELSE rest

NoGroup == [id |-> "none"]

QuotaEntryOf(match) ==
  LET info == getAntigravityQuotaInfo(match.entry)
  IN [id |-> match.id, remainingFraction |-> info.remainingFraction,
      resetTime |-> info.resetTime, displayName |-> info.displayName]

buildGroup(models, def, overrideResetTime) ==
  LET matches == SelectSeq(MapSeq(LAMBDA identifier : findAntigravityModel(models, identifier),
                                  def.identifiers),
                           LAMBDA match : match # NoMatch)
      quotaEntries == SelectSeq(MapSeq(QuotaEntryOf, matches),
                                LAMBDA entry : entry.remainingFraction # Null)
      displayName == FindName(MapSeq(LAMBDA entry : entry.displayName, quotaEntries))
  IN IF quotaEntries = <<>> THEN NoGroup
     ELSE [id |-> def.id,
           label |-> IF def.labelFromModel /\ displayName # NoName
                     THEN displayName.text ELSE def.label,
           models |-> MapSeq(LAMBDA entry : entry.id, quotaEntries),
           remainingFraction |->
             MathMin(MapSeq(LAMBDA entry : entry.remainingFraction.num, quotaEntries)),
           resetTime |->
             Coalesce(overrideResetTime,
                      FindTruthy(MapSeq(LAMBDA entry : entry.resetTime, quotaEntries)))]

buildAntigravityQuotaGroups(models) ==
  LET claudeDef == ANTIGRAVITY_QUOTA_GROUPS[1]
      geminiDef == ANTIGRAVITY_QUOTA_GROUPS[2]
      flashDef == ANTIGRAVITY_QUOTA_GROUPS[3]
      imageDef == ANTIGRAVITY_QUOTA_GROUPS[4]
      claudeGroup == buildGroup(models, claudeDef, Undefined)
      geminiGroup == buildGroup(models, geminiDef, Undefined)
      geminiResetTime == IF geminiGroup # NoGroup THEN geminiGroup.resetTime ELSE Undefined
      flashGroup == buildGroup(models, flashDef, Undefined)
      imageGroup == buildGroup(models, imageDef, geminiResetTime)
  IN SelectSeq(<<claudeGroup, geminiGroup, flashGroup, imageGroup>>,
               LAMBDA group : group # NoGroup)

\* The raw values a payload carries for a remaining fraction and for a reset time.
RemainingValues == {Num(2), Num(7), Str(<<"0", ".", "5">>), Str(<<"n", "/", "a">>)}

ResetValues == {Undefined, Str(<<"T", "1">>), Str(<<"T", "2">>)}

ModelNames == {NoName, Name("Gemini-3-Pro-High")}

ModelEntries ==
  {ModelEntry(n, QuotaInfo(r, Undefined, Undefined, t, Undefined), NoObject) :
     n \in ModelNames, r \in RemainingValues, t \in ResetValues}
  \cup {ModelEntry(NoName, NoObject, NoObject),
        ModelEntry(NoName, QuotaInfo(Undefined, Undefined, Undefined, Str(<<"T", "1">>), Undefined),
                   NoObject),
        ModelEntry(NoName, NoObject,
                   QuotaInfo(Undefined, Num(4), Undefined, Undefined, Str(<<"T", "2">>))),
        ModelEntry(Name("GEMINI-3-FLASH"),
                   QuotaInfo(Null, Undefined, Num(10), Str(<<>>), Str(<<"T", "1">>)), NoObject),
        ModelEntry(NoName, QuotaInfo(Str(<<>>), Undefined, Undefined, Str(<<>>), Undefined),
                   NoObject)}

ModelKeys ==
  {"claude-sonnet-4-5", "gemini-3-pro-high", "gemini-2.5-flash", "gemini-3-flash",
   "gemini-3-pro-image", "model-x"}

\* A payload of one or two models, as Object.entries lists them.
BuildGroupsCallDrawn ==
  \/ \E k \in ModelKeys, e \in ModelEntries :
       pureCall = [fn |-> "buildAntigravityQuotaGroups",
                   models |-> <<[key |-> k, entry |-> e]>>]
  \/ \E k1 \in ModelKeys, k2 \in ModelKeys \ {"claude-sonnet-4-5", "gemini-3-flash"},
        e1 \in ModelEntries, e2 \in ModelEntries :
       /\ k1 # k2
       /\ pureCall = [fn |-> "buildAntigravityQuotaGroups",
                      models |-> <<[key |-> k1, entry |-> e1], [key |-> k2, entry |-> e2]>>]

callBuildAntigravityQuotaGroups ==
  /\ pureCall.fn = "buildAntigravityQuotaGroups"
  /\ pureResult = Unevaluated
  /\ pureResult' = [fn |-> pureCall.fn, value |-> buildAntigravityQuotaGroups(pureCall.models)]
  /\ UNCHANGED pureCall

\* ---- excluded-model lists as text (components/providers/utils.ts) ----

IsSeparator(c) == c \in {"\n", ","}

\* text.split(/[\n,]+/): the pieces between maximal runs of newlines and commas; a run at
\* either end leaves an empty piece there.
RECURSIVE SplitLines(_)
SplitLines(text) ==
  LET seps == {i \in 1..Len(text) : IsSeparator(text[i])}
  IN IF seps = {} THEN <<text>>
     ELSE LET first == CHOOSE i \in seps : \A j \in seps : i <= j
              after == {i \in (first + 1)..Len(text) : ~IsSeparator(text[i])}
              next == IF after = {} THEN Len(text) + 1
                      ELSE CHOOSE i \in after : \A j \in after : i <= j
          IN <<SubSeq(text, 1, first - 1)>> \o SplitLines(SubSeq(text, next, Len(text)))

\* models.join('\n')
RECURSIVE JoinLines(_)
JoinLines(models) ==
  IF models = <<>> THEN <<>>
  ELSE IF Len(models) = 1 THEN models[1]
  ELSE models[1] \o <<"\n">> \o JoinLines(Tail(models))

parseExcludedModels_untrimmed(text) ==
  SelectSeq(SplitLines(text), LAMBDA item : item # <<>>)

parseExcludedModels(text) ==
  SelectSeq(MapSeq(Trim, SplitLines(text)), LAMBDA item : item # <<>>)

\* models: [defined, list]; `undefined` is [defined |-> FALSE]
excludedModelsToText(models) ==
  IF models.defined THEN JoinLines(models.list) ELSE <<>>

\* Names typed with a letter, a blank or a comma; the newline comes in with the join.
ModelNameTexts(n) == StringsUpTo({"m", " ", ","}, n)

ExcludedRoundTripDrawn ==
  \/ pureCall = [fn |-> "excludedModelsRoundTrip", models |-> [defined |-> FALSE, list |-> <<>>]]
  \/ \E l \in SeqsUpTo(ModelNameTexts(MaxModelNameLen), MaxModelNames) :
       pureCall = [fn |-> "excludedModelsRoundTrip", models |-> [defined |-> TRUE, list |-> l]]

\* The edit form: excludedText: excludedModelsToText(entry?.excludedModels) when it opens,
\* excludedModels: parseExcludedModels(form.excludedText) when it is saved untouched.
callExcludedModelsRoundTrip ==
  /\ pureCall.fn = "excludedModelsRoundTrip"
  /\ pureResult = Unevaluated
  /\ pureResult' = [fn |-> pureCall.fn,
                    value |-> parseExcludedModels(excludedModelsToText(pureCall.models))]
  /\ UNCHANGED pureCall

\* ---- OAuth callback input (pages/oauthCallbackSupport.ts) ----

CALLBACK_SUPPORTED == <<"codex", "anthropic", "antigravity", "gemini-cli", "kiro">>

\* The OAuth providers of the login page.
OAuthProviders == {"codex", "anthropic", "antigravity", "gemini-cli", "kiro", "qwen", "iflow"}

\* authUrl?: string
AuthUrls == {Undefined, Str(<<>>), Str(<<" ">>), Str(<<"h", "t", "t", "p">>)}

shouldShowOAuthCallbackInput_anyUrl(provider, authUrl) ==
  \E i \in 1..Len(CALLBACK_SUPPORTED) : CALLBACK_SUPPORTED[i] = provider

\* CALLBACK_SUPPORTED.includes(provider) && Boolean(authUrl)
shouldShowOAuthCallbackInput(provider, authUrl) ==
  /\ \E i \in 1..Len(CALLBACK_SUPPORTED) : CALLBACK_SUPPORTED[i] = provider
  /\ Truthy(authUrl)

CallbackInputCallDrawn ==
  \E provider \in OAuthProviders, authUrl \in AuthUrls :
    pureCall = [fn |-> "shouldShowOAuthCallbackInput", provider |-> provider, authUrl |-> authUrl]

callShouldShowOAuthCallbackInput ==
  /\ pureCall.fn = "shouldShowOAuthCallbackInput"
  /\ pureResult = Unevaluated
  /\ pureResult' = [fn |-> pureCall.fn,
                    value |-> shouldShowOAuthCallbackInput(pureCall.provider, pureCall.authUrl)]
  /\ UNCHANGED pureCall

PureCallDrawn ==
  \/ ResolveCallDrawn
  \/ NormalizeCallDrawn
  \/ MatchCallDrawn
  \/ StatsBySourceCallDrawn
  \/ ProviderStatsCallDrawn
  \/ RemainingCallDrawn
  \/ BuildGroupsCallDrawn
  \/ ExcludedRoundTripDrawn
  \/ CallbackInputCallDrawn

PureInit == PureCallDrawn /\ pureResult = Unevaluated

PureNext ==
  \/ callResolveAuthFileStats /\ UNCHANGED <<pollVars, pageVars, cardVars, fetchVars, mergeVars, excludedVars, panelVars>>
  \/ callNormalizeAuthIndexValue /\ UNCHANGED <<pollVars, pageVars, cardVars, fetchVars, mergeVars, excludedVars, panelVars>>
  \/ callStatusBarCache /\ UNCHANGED <<pollVars, pageVars, cardVars, fetchVars, mergeVars, excludedVars, panelVars>>
  \/ callGetStatsBySource /\ UNCHANGED <<pollVars, pageVars, cardVars, fetchVars, mergeVars, excludedVars, panelVars>>
  \/ callGetOpenAIProviderStats /\ UNCHANGED <<pollVars, pageVars, cardVars, fetchVars, mergeVars, excludedVars, panelVars>>
  \/ callRemainingPercentFromUsedPercent /\ UNCHANGED <<pollVars, pageVars, cardVars, fetchVars, mergeVars, excludedVars, panelVars>>
  \/ callRemainingFromUsedPercent /\ UNCHANGED <<pollVars, pageVars, cardVars, fetchVars, mergeVars, excludedVars, panelVars>>
  \/ callBuildAntigravityQuotaGroups /\ UNCHANGED <<pollVars, pageVars, cardVars, fetchVars, mergeVars, excludedVars, panelVars>>
  \/ callExcludedModelsRoundTrip /\ UNCHANGED <<pollVars, pageVars, cardVars, fetchVars, mergeVars, excludedVars, panelVars>>
  \/ callShouldShowOAuthCallbackInput /\ UNCHANGED <<pollVars, pageVars, cardVars, fetchVars, mergeVars, excludedVars, panelVars>>

-----------------------------------------------------------------------------
(* AuthFilesPage.tsx: per-item refreshes merged into the file list *)

\* The files the list request returned, in list order. An id of "" is an absent id.
\* Ids and names carry no surrounding whitespace, so String(x).trim() leaves them as they are.
InitialFiles ==
  << [id |-> "a", name |-> "a.json", body |-> "listed"],
     [id |-> "", name |-> "b.json", body |-> "listed"],
     [id |-> "c", name |-> "c.json", body |-> "listed"] >>

\* item.id ? String(item.id).trim() : String(item.name || '').trim()
AuthIdOf(f) == IF f.id # "" THEN f.id ELSE f.name

\* item.id ? String(item.id).trim() : ''
AuthIdOnly(f) == f.id

\* The handlers a card starts: the quota refresh under its auth id, the enable/disable
\* toggle under its id.
ItemCallKeys ==
  {<<"quota", AuthIdOf(InitialFiles[i])>> : i \in 1..Len(InitialFiles)}
    \cup {<<"toggle", AuthIdOnly(InitialFiles[i])>> :
            i \in {j \in 1..Len(InitialFiles) : AuthIdOnly(InitialFiles[j]) # ""}}

FileNamesListed == {InitialFiles[i].name : i \in 1..Len(InitialFiles)}

NoRecord == [id |-> "", name |-> "", body |-> "none"]

\* The record the backend returns for an auth id: that file, with a new body.
RecordFor(authID, body) ==
  LET i == CHOOSE j \in 1..Len(InitialFiles) : AuthIdOf(InitialFiles[j]) = authID
  IN [InitialFiles[i] EXCEPT !.body = body]

\* prev.map((f) => (fid === authID ? updated : f)) of refreshCodexQuota
ReplaceByAuthId_upsert(list, authID, updated) ==
  IF \E i \in 1..Len(list) : AuthIdOf(list[i]) = authID
  THEN [i \in 1..Len(list) |-> IF AuthIdOf(list[i]) = authID THEN updated ELSE list[i]]
  ELSE Append(list, updated)

ReplaceByAuthId(list, authID, updated) ==
  [i \in 1..Len(list) |-> IF AuthIdOf(list[i]) = authID THEN updated ELSE list[i]]

\* prev.map((f) => (String(f.id || '').trim() === id ? updated : f)) of toggleDisabled
ReplaceById(list, id, updated) ==
  [i \in 1..Len(list) |-> IF AuthIdOnly(list[i]) = id THEN updated ELSE list[i]]

\* prev.filter((item) => item.name !== name)
WithoutName(list, name) == SelectSeq(list, LAMBDA f : f.name # name)

ItemCallsInFlight ==
  Cardinality({k \in ItemCallKeys : itemCalls[k] # "idle"}) + Cardinality(deleteCalls)

mergeHistory == <<returnedRecord, removedNames, reloadApplied>>

\* refreshCodexQuota(item) up to the await of the quota request; the card's refresh
\* button shows `loading` while refreshingQuota[authID] is set.
refreshCodexQuota(i) ==
  /\ i \in 1..Len(fileList)
  /\ AuthIdOf(fileList[i]) # ""
  /\ itemCalls[<<"quota", AuthIdOf(fileList[i])>>] = "idle"
  /\ ItemCallsInFlight < MaxItemCalls
  /\ itemCalls' = [itemCalls EXCEPT ![<<"quota", AuthIdOf(fileList[i])>>] = "request"]
  /\ UNCHANGED <<fileList, serverFiles, deleteCalls, mergeHistory>>

\* The quota request resolved with `data.auth`: replace by identity, then finally.
refreshCodexQuotaUpdated(authID) ==
  /\ <<"quota", authID>> \in ItemCallKeys
  /\ itemCalls[<<"quota", authID>>] = "request"
  /\ LET updated == RecordFor(authID, "refreshed")
     IN /\ fileList' = ReplaceByAuthId(fileList, authID, updated)
        /\ serverFiles' = [i \in 1..Len(serverFiles) |->
                             IF AuthIdOf(serverFiles[i]) = authID THEN updated
                             ELSE serverFiles[i]]
        /\ returnedRecord' = [returnedRecord EXCEPT ![authID] = updated]
  /\ itemCalls' = [itemCalls EXCEPT ![<<"quota", authID>>] = "idle"]
  /\ UNCHANGED <<deleteCalls, removedNames, reloadApplied>>

\* toggleDisabled of a card up to the await of the request; both toggle buttons are
\* disabled while togglingDisabled[id] is set or the card has no id.
toggleDisabled(i) ==
  /\ i \in 1..Len(fileList)
  /\ AuthIdOnly(fileList[i]) # ""
  /\ itemCalls[<<"toggle", AuthIdOnly(fileList[i])>>] = "idle"
  /\ ItemCallsInFlight < MaxItemCalls
  /\ itemCalls' = [itemCalls EXCEPT ![<<"toggle", AuthIdOnly(fileList[i])>>] = "request"]
  /\ UNCHANGED <<fileList, serverFiles, deleteCalls, mergeHistory>>

\* authFilesApi.setDisabled resolved with `data.auth`.
setDisabledUpdated(id) ==
  /\ <<"toggle", id>> \in ItemCallKeys
  /\ itemCalls[<<"toggle", id>>] = "request"
  /\ LET updated == RecordFor(id, "toggled")
     IN /\ fileList' = ReplaceById(fileList, id, updated)
        /\ serverFiles' = [i \in 1..Len(serverFiles) |->
                             IF AuthIdOf(serverFiles[i]) = id THEN updated
                             ELSE serverFiles[i]]
        /\ returnedRecord' = [returnedRecord EXCEPT ![id] = updated]
  /\ itemCalls' = [itemCalls EXCEPT ![<<"toggle", id>>] = "idle"]
  /\ UNCHANGED <<deleteCalls, removedNames, reloadApplied>>

\* Either request resolved without a record: `await loadFiles()`.
itemRequestNoRecord(key) ==
  /\ itemCalls[key] = "request"
  /\ itemCalls' = [itemCalls EXCEPT ![key] = "reload"]
  /\ UNCHANGED <<fileList, serverFiles, deleteCalls, mergeHistory>>

\* Either request rejected: error notification, then finally.
itemRequestRejected(key) ==
  /\ itemCalls[key] = "request"
  /\ itemCalls' = [itemCalls EXCEPT ![key] = "idle"]
  /\ UNCHANGED <<fileList, serverFiles, deleteCalls, mergeHistory>>

\* The loadFiles awaited by a handler settled: setFiles(data?.files || []) when the list
\* request resolved, the list as it was when it rejected.
itemReloadSettled(key, ok) ==
  /\ itemCalls[key] = "reload"
  /\ fileList' = IF ok THEN serverFiles ELSE fileList
  /\ reloadApplied' = (reloadApplied \/ ok)
  /\ itemCalls' = [itemCalls EXCEPT ![key] = "idle"]
  /\ UNCHANGED <<serverFiles, deleteCalls, returnedRecord, removedNames>>

\* handleDelete(name) of the page, confirmed, up to the await of the delete request.
pageHandleDelete(name) ==
  /\ \E i \in 1..Len(fileList) : fileList[i].name = name
  /\ name \notin deleteCalls
  /\ ItemCallsInFlight < MaxItemCalls
  /\ deleteCalls' = deleteCalls \cup {name}
  /\ UNCHANGED <<fileList, serverFiles, itemCalls, mergeHistory>>

\* authFilesApi.deleteFile(name) resolved: the file leaves the list.
pageDeleteResolved(name) ==
  /\ name \in deleteCalls
  /\ deleteCalls' = deleteCalls \ {name}
  /\ fileList' = WithoutName(fileList, name)
  /\ serverFiles' = WithoutName(serverFiles, name)
  /\ removedNames' = removedNames \cup {name}
  /\ UNCHANGED <<itemCalls, returnedRecord, reloadApplied>>

\* authFilesApi.deleteFile(name) rejected: the list stays.
pageDeleteRejected(name) ==
  /\ name \in deleteCalls
  /\ deleteCalls' = deleteCalls \ {name}
  /\ UNCHANGED <<fileList, serverFiles, itemCalls, mergeHistory>>

\* After the list request of the mount effect resolved.
MergeInit ==
  /\ fileList = InitialFiles
  /\ serverFiles = InitialFiles
  /\ itemCalls = [k \in ItemCallKeys |-> "idle"]
  /\ deleteCalls = {}
  /\ returnedRecord = [k \in {key[2] : key \in ItemCallKeys} |-> NoRecord]
  /\ removedNames = {}
  /\ reloadApplied = FALSE

MergeNext ==
  \/ \E i \in 1..Len(InitialFiles) : refreshCodexQuota(i) /\ UNCHANGED <<pollVars, pageVars, cardVars, fetchVars, pureVars, excludedVars, panelVars>>
  \/ \E f \in ItemCallKeys : refreshCodexQuotaUpdated(f[2]) /\ UNCHANGED <<pollVars, pageVars, cardVars, fetchVars, pureVars, excludedVars, panelVars>>
  \/ \E i \in 1..Len(InitialFiles) : toggleDisabled(i) /\ UNCHANGED <<pollVars, pageVars, cardVars, fetchVars, pureVars, excludedVars, panelVars>>
  \/ \E f \in ItemCallKeys : setDisabledUpdated(f[2]) /\ UNCHANGED <<pollVars, pageVars, cardVars, fetchVars, pureVars, excludedVars, panelVars>>
  \/ \E key \in ItemCallKeys : itemRequestNoRecord(key) /\ UNCHANGED <<pollVars, pageVars, cardVars, fetchVars, pureVars, excludedVars, panelVars>>
  \/ \E key \in ItemCallKeys : itemRequestRejected(key) /\ UNCHANGED <<pollVars, pageVars, cardVars, fetchVars, pureVars, excludedVars, panelVars>>
  \/ \E key \in ItemCallKeys, ok \in BOOLEAN : itemReloadSettled(key, ok) /\ UNCHANGED <<pollVars, pageVars, cardVars, fetchVars, pureVars, excludedVars, panelVars>>
  \/ \E name \in FileNamesListed : pageHandleDelete(name) /\ UNCHANGED <<pollVars, pageVars, cardVars, fetchVars, pureVars, excludedVars, panelVars>>
  \/ \E name \in FileNamesListed : pageDeleteResolved(name) /\ UNCHANGED <<pollVars, pageVars, cardVars, fetchVars, pureVars, excludedVars, panelVars>>
  \/ \E name \in FileNamesListed : pageDeleteRejected(name) /\ UNCHANGED <<pollVars, pageVars, cardVars, fetchVars, pureVars, excludedVars, panelVars>>

-----------------------------------------------------------------------------
(* The auth-files page: the OAuth excluded-models list and the OAuth model mappings *)

\* loadExcluded() up to the await of the request: after a save or a delete of an
\* exclusion (the mount effect's call is the one in flight after construction).
loadExcluded ==
  /\ excludedCalls < MaxExcludedCalls
  /\ excludedCalls' = excludedCalls + 1
  /\ excludedInFlight' = excludedInFlight + 1
  /\ UNCHANGED <<excluded, excludedError, excludedUnsupportedRef, warningsShown>>

\* authFilesApi.getOauthExcludedModels() resolved with res (null or a map of models).
getOauthExcludedModelsResolved(res) ==
  /\ excludedInFlight > 0
  /\ excludedInFlight' = excludedInFlight - 1
  /\ excludedUnsupportedRef' = FALSE
  /\ excluded' = IF res = "null" THEN "empty" ELSE res
  /\ excludedError' = "null"
  /\ UNCHANGED <<excludedCalls, warningsShown>>

\* The request rejected with an error carrying `status`.
getOauthExcludedModelsRejected(status) ==
  /\ excludedInFlight > 0
  /\ excludedInFlight' = excludedInFlight - 1
  /\ IF status = 404
     THEN /\ excluded' = "empty"
          /\ excludedError' = "unsupported"
          /\ IF ~excludedUnsupportedRef
             THEN /\ excludedUnsupportedRef' = TRUE
                  /\ warningsShown' = warningsShown + 1
             ELSE UNCHANGED <<excludedUnsupportedRef, warningsShown>>
     ELSE UNCHANGED <<excluded, excludedError, excludedUnsupportedRef, warningsShown>>
  /\ UNCHANGED excludedCalls

\* loadModelMappings() up to the await of the request (header refresh, after a save or
\* a delete of a mapping).
loadModelMappings ==
  /\ mappingsCalls < MaxExcludedCalls
  /\ mappingsCalls' = mappingsCalls + 1
  /\ mappingsInFlight' = mappingsInFlight + 1
  /\ UNCHANGED <<modelMappings, modelMappingsError, mappingsUnsupportedRef,
                 mappingWarningsShown>>

\* authFilesApi.getOauthModelMappings() resolved with res.
getOauthModelMappingsResolved(res) ==
  /\ mappingsInFlight > 0
  /\ mappingsInFlight' = mappingsInFlight - 1
  /\ mappingsUnsupportedRef' = FALSE
  /\ modelMappings' = IF res = "null" THEN "empty" ELSE res
  /\ modelMappingsError' = "null"
  /\ UNCHANGED <<mappingsCalls, mappingWarningsShown>>

\* The request rejected with an error carrying `status`.
getOauthModelMappingsRejected(status) ==
  /\ mappingsInFlight > 0
  /\ mappingsInFlight' = mappingsInFlight - 1
  /\ IF status = 404
     THEN /\ modelMappings' = "empty"
          /\ modelMappingsError' = "unsupported"
          /\ IF ~mappingsUnsupportedRef
             THEN /\ mappingsUnsupportedRef' = TRUE
                  /\ mappingWarningsShown' = mappingWarningsShown + 1
             ELSE UNCHANGED <<mappingsUnsupportedRef, mappingWarningsShown>>
     ELSE UNCHANGED <<modelMappings, modelMappingsError, mappingsUnsupportedRef,
                      mappingWarningsShown>>
  /\ UNCHANGED mappingsCalls

\* After construction: the first render, and the mount effect's loadExcluded and
\* loadModelMappings awaiting their requests.
ExcludedInit ==
  /\ excluded = "empty"
  /\ excludedError = "null"
  /\ excludedUnsupportedRef = FALSE
  /\ excludedInFlight = 1
  /\ excludedCalls = 1
  /\ warningsShown = 0
  /\ modelMappings = "empty"
  /\ modelMappingsError = "null"
  /\ mappingsUnsupportedRef = FALSE
  /\ mappingsInFlight = 1
  /\ mappingsCalls = 1
  /\ mappingWarningsShown = 0

ExcludedNext ==
  \/ loadExcluded /\ UNCHANGED <<mappingsVars, pollVars, pageVars, cardVars, fetchVars, pureVars, mergeVars, panelVars>>
  \/ \E res \in {"null", "models"} :
        getOauthExcludedModelsResolved(res) /\ UNCHANGED <<mappingsVars, pollVars, pageVars, cardVars, fetchVars, pureVars, mergeVars, panelVars>>
  \/ \E status \in {404, 500} :
        getOauthExcludedModelsRejected(status) /\ UNCHANGED <<mappingsVars, pollVars, pageVars, cardVars, fetchVars, pureVars, mergeVars, panelVars>>
  \/ loadModelMappings /\ UNCHANGED <<excludedOnlyVars, pollVars, pageVars, cardVars, fetchVars, pureVars, mergeVars, panelVars>>
  \/ \E res \in {"null", "mappings"} :
        getOauthModelMappingsResolved(res) /\ UNCHANGED <<excludedOnlyVars, pollVars, pageVars, cardVars, fetchVars, pureVars, mergeVars, panelVars>>
  \/ \E status \in {404, 500} :
        getOauthModelMappingsRejected(status) /\ UNCHANGED <<excludedOnlyVars, pollVars, pageVars, cardVars, fetchVars, pureVars, mergeVars, panelVars>>

\* ---- OpenAI connectivity test (AiProvidersPage.tsx) ----

\* Error messages, as sequences of characters.
MessageTexts ==
  { <<>>,
    <<"t", "i", "m", "e", "o", "u", "t">>,
    <<"T", "i", "m", "e", "o", "u", "t">>,
    <<"a", " ", "T", "i", "m", "e", "o", "u", "t", "!">>,
    <<"f", "a", "i", "l">> }

LowerChar(c) ==
  CASE c = "T" -> "t" [] c = "I" -> "i" [] c = "M" -> "m" [] c = "C" -> "c"
    [] c = "E" -> "e" [] c = "O" -> "o" [] c = "U" -> "u"
    [] OTHER -> c

\* String.prototype.toLowerCase, character by character
LowerCased(text) == [i \in 1..Len(text) |-> LowerChar(text[i])]

\* String.prototype.includes
Includes(text, needle) ==
  \E i \in 0..(Len(text) - Len(needle)) : SubSeq(text, i + 1, i + Len(needle)) = needle

TimeoutText == <<"t", "i", "m", "e", "o", "u", "t">>

\* What the catch block sees: err.code and err.message ("" when absent).
TestError(code, message) == [code |-> code, message |-> message]

isTimeout_caseSensitive(err) ==
  err.code = "ECONNABORTED" \/ Includes(err.message, TimeoutText)

\* err?.code === 'ECONNABORTED' || String(err?.message || '').toLowerCase().includes('timeout')
isTimeout(err) ==
  err.code = "ECONNABORTED" \/ Includes(LowerCased(err.message), TimeoutText)

\* The texts the test shows: the translation key, its seconds and the error detail.
TestMessage(key, seconds, detail) == [key |-> key, seconds |-> seconds, detail |-> detail]
NoTestMessage == TestMessage("", 0, <<>>)
RunningMessage == TestMessage("ai_providers.openai_test_running", 0, <<>>)
SuccessMessage == TestMessage("ai_providers.openai_test_success", 0, <<>>)
TimeoutMessage ==
  TestMessage("ai_providers.openai_test_timeout", OPENAI_TEST_TIMEOUT_MS \div 1000, <<>>)
FailedMessage(detail) == TestMessage("ai_providers.openai_test_failed", 0, detail)
RequiredMessage(key) == TestMessage(key, 0, <<>>)

NoOutcome == [kind |-> "none", statusCode |-> 0, error |-> TestError("", <<>>)]

\* The model lists the form can hold.
AvailableModelLists == { <<>>, <<"m1">>, <<"m2">>, <<"m1", "m2">>, <<"m2", "m1">> }

InList(x, list) == \E i \in 1..Len(list) : list[i] = x

\* The effect on [modal?.type, openaiAvailableModels, openaiTestModel]: the model under
\* test follows the list, and the test result is cleared whenever it had to move.
syncTestModel(available, model) ==
  IF available = <<>>
  THEN IF model # ""
       THEN /\ openaiTestModel' = ""
            /\ openaiTestStatus' = "idle"
            /\ openaiTestMessage' = NoTestMessage
       ELSE /\ openaiTestModel' = model
            /\ UNCHANGED <<openaiTestStatus, openaiTestMessage>>
  ELSE IF model = "" \/ ~InList(model, available)
       THEN /\ openaiTestModel' = available[1]
            /\ openaiTestStatus' = "idle"
            /\ openaiTestMessage' = NoTestMessage
       ELSE /\ openaiTestModel' = model
            /\ UNCHANGED <<openaiTestStatus, openaiTestMessage>>

\* openOpenaiModal: the form of an entry is loaded and the test is reset.
openOpenaiModal(available) ==
  /\ modal = "null"
  /\ modal' = "openai"
  /\ openaiAvailableModels' = available
  /\ openaiTestModel' = IF available = <<>> THEN "" ELSE available[1]
  /\ openaiTestStatus' = "idle"
  /\ openaiTestMessage' = NoTestMessage
  /\ UNCHANGED <<testsInFlight, testCalls, lastTestOutcome>>

closeModal ==
  /\ modal = "openai"
  /\ modal' = "null"
  /\ openaiTestModel' = ""
  /\ openaiTestStatus' = "idle"
  /\ openaiTestMessage' = NoTestMessage
  /\ UNCHANGED <<openaiAvailableModels, testsInFlight, testCalls, lastTestOutcome>>

\* The model entries of the form are edited; the effect runs on the new list.
editModelEntries(available) ==
  /\ modal = "openai"
  /\ available # openaiAvailableModels
  /\ openaiAvailableModels' = available
  /\ syncTestModel(available, openaiTestModel)
  /\ UNCHANGED <<modal, testsInFlight, testCalls, lastTestOutcome>>

\* onChange of the model select: the value is set, the result cleared, the effect runs.
selectTestModel(model) ==
  /\ modal = "openai"
  /\ openaiAvailableModels # <<>>
  /\ model = "" \/ InList(model, openaiAvailableModels)
  /\ openaiTestModel' = IF model = "" THEN openaiAvailableModels[1] ELSE model
  /\ openaiTestStatus' = "idle"
  /\ openaiTestMessage' = NoTestMessage
  /\ UNCHANGED <<modal, openaiAvailableModels, testsInFlight, testCalls, lastTestOutcome>>

\* testOpenaiProviderConnection up to its await. The button is disabled without models
\* and while it shows the spinner of a loading test.
testOpenaiProviderConnection(hasBaseUrl, hasKey) ==
  /\ modal = "openai"
  /\ openaiAvailableModels # <<>>
  /\ openaiTestStatus # "loading"
  /\ IF ~hasBaseUrl
     THEN /\ openaiTestStatus' = "error"
          /\ openaiTestMessage' = RequiredMessage("notification.openai_test_url_required")
          /\ UNCHANGED <<testsInFlight, testCalls>>
     ELSE IF ~hasKey
     THEN /\ openaiTestStatus' = "error"
          /\ openaiTestMessage' = RequiredMessage("notification.openai_test_key_required")
          /\ UNCHANGED <<testsInFlight, testCalls>>
     ELSE /\ testCalls < MaxTestCalls
          /\ openaiTestStatus' = "loading"
          /\ openaiTestMessage' = RunningMessage
          /\ testsInFlight' = testsInFlight + 1
          /\ testCalls' = testCalls + 1
  /\ UNCHANGED <<modal, openaiAvailableModels, openaiTestModel, lastTestOutcome>>

\* The catch block.
testFailed(err) ==
  /\ openaiTestStatus' = "error"
  /\ openaiTestMessage' = IF isTimeout(err) THEN TimeoutMessage ELSE FailedMessage(err.message)

\* The request resolved: outside 2xx it throws new Error(getApiCallErrorMessage(result)).
testRequestResolved(statusCode, message) ==
  /\ testsInFlight > 0
  /\ testsInFlight' = testsInFlight - 1
  /\ lastTestOutcome' = [kind |-> "resolved", statusCode |-> statusCode,
                         error |-> TestError("", message)]
  /\ IF statusCode < 200 \/ statusCode >= 300
     THEN testFailed(TestError("", message))
     ELSE /\ openaiTestStatus' = "success"
          /\ openaiTestMessage' = SuccessMessage
  /\ UNCHANGED <<modal, openaiAvailableModels, openaiTestModel, testCalls>>

\* The request rejected with err.
testRequestRejected(code, message) ==
  /\ testsInFlight > 0
  /\ testsInFlight' = testsInFlight - 1
  /\ lastTestOutcome' = [kind |-> "rejected", statusCode |-> 0,
                         error |-> TestError(code, message)]
  /\ testFailed(TestError(code, message))
  /\ UNCHANGED <<modal, openaiAvailableModels, openaiTestModel, testCalls>>

TestInit ==
  /\ modal = "null"
  /\ openaiAvailableModels = <<>>
  /\ openaiTestModel = ""
  /\ openaiTestStatus = "idle"
  /\ openaiTestMessage = NoTestMessage
  /\ testsInFlight = 0
  /\ testCalls = 0
  /\ lastTestOutcome = NoOutcome

TestNext ==
  \/ \E available \in AvailableModelLists :
        openOpenaiModal(available) /\ UNCHANGED <<pollVars, pageVars, cardVars, fetchVars, pureVars, mergeVars, excludedVars, reloadVars, switchVars, deleteVars, pagerVars, modalVars, ampcodeVars>>
  \/ closeModal /\ UNCHANGED <<pollVars, pageVars, cardVars, fetchVars, pureVars, mergeVars, excludedVars, reloadVars, switchVars, deleteVars, pagerVars, modalVars, ampcodeVars>>
  \/ \E available \in AvailableModelLists :
        editModelEntries(available) /\ UNCHANGED <<pollVars, pageVars, cardVars, fetchVars, pureVars, mergeVars, excludedVars, reloadVars, switchVars, deleteVars, pagerVars, modalVars, ampcodeVars>>
  \/ \E model \in {"", "m1", "m2"} :
        selectTestModel(model) /\ UNCHANGED <<pollVars, pageVars, cardVars, fetchVars, pureVars, mergeVars, excludedVars, reloadVars, switchVars, deleteVars, pagerVars, modalVars, ampcodeVars>>
  \/ \E hasBaseUrl \in BOOLEAN, hasKey \in BOOLEAN :
        testOpenaiProviderConnection(hasBaseUrl, hasKey) /\ UNCHANGED <<pollVars, pageVars, cardVars, fetchVars, pureVars, mergeVars, excludedVars, reloadVars, switchVars, deleteVars, pagerVars, modalVars, ampcodeVars>>
  \/ \E statusCode \in {199, 200, 299, 300}, message \in MessageTexts :
        testRequestResolved(statusCode, message) /\ UNCHANGED <<pollVars, pageVars, cardVars, fetchVars, pureVars, mergeVars, excludedVars, reloadVars, switchVars, deleteVars, pagerVars, modalVars, ampcodeVars>>
  \/ \E code \in {"", "ECONNABORTED"}, message \in MessageTexts :
        testRequestRejected(code, message) /\ UNCHANGED <<pollVars, pageVars, cardVars, fetchVars, pureVars, mergeVars, excludedVars, reloadVars, switchVars, deleteVars, pagerVars, modalVars, ampcodeVars>>

\* ---- overlapping reloads of the file list (AuthFilesPage.tsx) ----

\* A list request: who called loadFiles, how far it is, what the backend answered.
ListRequest(caller, status, response) ==
  [caller |-> caller, status |-> status, response |-> response]

NoFiles == 0 - 1

Unsettled(k) == listRequests[k].status \in {"sent", "answered"}

\* loadFiles up to its await: setLoading(true), setError(''), authFilesApi.list().
\* The header button is disabled while `loading`; the reload after an upload and the
\* fallback reload of a refresh that returned no record are not.
loadFilesIssued(caller) ==
  /\ caller = "button" => ~shownLoading
  /\ Len(listRequests) < MaxListRequests
  /\ shownLoading' = TRUE
  /\ listRequests' = Append(listRequests, ListRequest(caller, "sent", NoFiles))
  /\ UNCHANGED <<shownFiles, backendFiles>>

\* handleFileChange: authFilesApi.upload(file) succeeded, then `await loadFiles()`.
uploadThenLoadFiles ==
  /\ backendFiles < MaxUploads
  /\ Len(listRequests) < MaxListRequests
  /\ backendFiles' = backendFiles + 1
  /\ shownLoading' = TRUE
  /\ listRequests' = Append(listRequests, ListRequest("upload", "sent", NoFiles))
  /\ UNCHANGED shownFiles

\* The backend answers a list request with the files it holds at that moment.
listAnswered(k) ==
  /\ listRequests[k].status = "sent"
  /\ listRequests' = [listRequests EXCEPT ![k] = ListRequest(@.caller, "answered", backendFiles)]
  /\ UNCHANGED <<shownFiles, shownLoading, backendFiles>>

\* The answer arrived: setFiles(data?.files || []), finally setLoading(false).
listArrived(k) ==
  /\ listRequests[k].status = "answered"
  /\ shownFiles' = listRequests[k].response
  /\ shownLoading' = FALSE
  /\ listRequests' = [listRequests EXCEPT ![k].status = "resolved"]
  /\ UNCHANGED backendFiles

\* The request failed: setError, finally setLoading(false).
listFailed(k) ==
  /\ Unsettled(k)
  /\ shownLoading' = FALSE
  /\ listRequests' = [listRequests EXCEPT ![k] = ListRequest(@.caller, "rejected", NoFiles)]
  /\ UNCHANGED <<shownFiles, backendFiles>>

\* After construction: the mount effect has called loadFiles.
ReloadInit ==
  /\ shownFiles = NoFiles
  /\ shownLoading = TRUE
  /\ backendFiles = 0
  /\ listRequests = <<ListRequest("mount", "sent", NoFiles)>>

ReloadNext ==
  \/ \E caller \in {"button", "reload"} : loadFilesIssued(caller) /\ UNCHANGED <<pollVars, pageVars, cardVars, fetchVars, pureVars, mergeVars, excludedVars, providerVars, switchVars, deleteVars, pagerVars, modalVars, ampcodeVars>>
  \/ uploadThenLoadFiles /\ UNCHANGED <<pollVars, pageVars, cardVars, fetchVars, pureVars, mergeVars, excludedVars, providerVars, switchVars, deleteVars, pagerVars, modalVars, ampcodeVars>>
  \/ \E k \in DOMAIN listRequests : listAnswered(k) /\ UNCHANGED <<pollVars, pageVars, cardVars, fetchVars, pureVars, mergeVars, excludedVars, providerVars, switchVars, deleteVars, pagerVars, modalVars, ampcodeVars>>
  \/ \E k \in DOMAIN listRequests : listArrived(k) /\ UNCHANGED <<pollVars, pageVars, cardVars, fetchVars, pureVars, mergeVars, excludedVars, providerVars, switchVars, deleteVars, pagerVars, modalVars, ampcodeVars>>
  \/ \E k \in DOMAIN listRequests : listFailed(k) /\ UNCHANGED <<pollVars, pageVars, cardVars, fetchVars, pureVars, mergeVars, excludedVars, providerVars, switchVars, deleteVars, pagerVars, modalVars, ampcodeVars>>

\* ---- enabling and disabling provider configs (AiProvidersPage.tsx) ----

DISABLE_ALL_MODELS_RULE == <<"*">>

ConfigProviders == {"gemini", "codex", "claude"}

\* excludedModels?: string[]
NoExcluded == [defined |-> FALSE, list |-> <<>>]
Excluded(list) == [defined |-> TRUE, list |-> list]

\* models.some((model) => String(model ?? '').trim() === DISABLE_ALL_MODELS_RULE)
hasDisableAllModelsRule(models) ==
  /\ models.defined
  /\ \E i \in 1..Len(models.list) : Trim(models.list[i]) = DISABLE_ALL_MODELS_RULE

stripDisableAllModelsRule(models) ==
  IF models.defined
  THEN SelectSeq(models.list, LAMBDA model : Trim(model) # DISABLE_ALL_MODELS_RULE)
  ELSE <<>>

withDisableAllModelsRule(models) ==
  Excluded(Append(stripDisableAllModelsRule(models), DISABLE_ALL_MODELS_RULE))

withoutDisableAllModelsRule(models) == Excluded(stripDisableAllModelsRule(models))

KeyConfig(apiKey, baseUrl, excludedModels) ==
  [apiKey |-> apiKey, baseUrl |-> baseUrl, excludedModels |-> excludedModels]

\* The lists loadConfigs received.
LoadedKeys ==
  [p \in ConfigProviders |->
     CASE p = "gemini" -> << KeyConfig("g1", "", NoExcluded),
                             KeyConfig("g2", "u", Excluded(<< <<"m">>, <<" ", "*">> >>)) >>
       [] p = "codex" -> << KeyConfig("c1", "u", Excluded(<< <<"*">>, <<"m">>, <<"*">> >>)) >>
       [] p = "claude" -> << KeyConfig("k1", "", Excluded(<< <<"m">> >>)) >>]

NoSwitch == [provider |-> "", index |-> 0, enabled |-> FALSE, previousList |-> <<>>,
             nextList |-> <<>>, storeBefore |-> <<>>]
NoDeleteKey == [provider |-> "", apiKey |-> "", closure |-> <<>>]
NotSwitched == [outcome |-> "none", call |-> NoSwitch]

ToggledList_allRows(previousList, index, enabled) ==
  [idx \in 1..Len(previousList) |->
     [previousList[idx] EXCEPT !.excludedModels =
        IF enabled THEN withoutDisableAllModelsRule(@) ELSE withDisableAllModelsRule(@)]]

\* nextItem = { ...current, excludedModels: nextExcluded };
\* previousList.map((item, idx) => (idx === index ? nextItem : item))
ToggledList(previousList, index, enabled) ==
  LET current == previousList[index]
      nextExcluded == IF enabled THEN withoutDisableAllModelsRule(current.excludedModels)
                      ELSE withDisableAllModelsRule(current.excludedModels)
      nextItem == [current EXCEPT !.excludedModels = nextExcluded]
  IN [idx \in 1..Len(previousList) |-> IF idx = index THEN nextItem ELSE previousList[idx]]

\* Every row control (edit, delete, toggle) is disabled while a switch is under way.
ControlsEnabled == configSwitchingKey = "null"

\* setConfigEnabled up to the await of its save request; the ToggleSwitch hands over the
\* opposite of what it shows, checked = !hasDisableAllModelsRule(item.excludedModels).
setConfigEnabled(provider, index, enabled) ==
  /\ ControlsEnabled
  /\ switchCalls < MaxSwitchCalls
  /\ index \in 1..Len(providerKeys[provider])
  /\ enabled = hasDisableAllModelsRule(providerKeys[provider][index].excludedModels)
  /\ LET previousList == providerKeys[provider]
         nextList == ToggledList(previousList, index, enabled)
     IN /\ configSwitchingKey' = <<provider, previousList[index].apiKey>>
        /\ providerKeys' = [providerKeys EXCEPT ![provider] = nextList]
        /\ configStore' = [configStore EXCEPT ![provider] = nextList]
        /\ switchCall' = [provider |-> provider, index |-> index, enabled |-> enabled,
                          previousList |-> previousList, nextList |-> nextList,
                          storeBefore |-> configStore[provider]]
  /\ switchCalls' = switchCalls + 1
  /\ UNCHANGED <<backendKeys, deleteKeyCall, lastSwitch, savedToggles>>

\* The save request resolved: notification, finally setConfigSwitchingKey(null).
saveKeysResolved ==
  /\ switchCall # NoSwitch
  /\ backendKeys' = [backendKeys EXCEPT ![switchCall.provider] = switchCall.nextList]
  /\ configSwitchingKey' = "null"
  /\ lastSwitch' = [outcome |-> "saved", call |-> switchCall]
  /\ savedToggles' =
       [savedToggles EXCEPT ![<<switchCall.provider,
                                switchCall.previousList[switchCall.index].apiKey>>] =
          IF switchCall.enabled THEN "enabled" ELSE "disabled"]
  /\ switchCall' = NoSwitch
  /\ UNCHANGED <<providerKeys, configStore, deleteKeyCall, switchCalls>>

\* The save request rejected: the catch puts previousList back, then the finally.
saveKeysRejected ==
  /\ switchCall # NoSwitch
  /\ providerKeys' = [providerKeys EXCEPT ![switchCall.provider] = switchCall.previousList]
  /\ configStore' = [configStore EXCEPT ![switchCall.provider] = switchCall.previousList]
  /\ configSwitchingKey' = "null"
  /\ lastSwitch' = [outcome |-> "failed", call |-> switchCall]
  /\ switchCall' = NoSwitch
  /\ UNCHANGED <<backendKeys, deleteKeyCall, switchCalls, savedToggles>>

\* deleteGemini / deleteProviderEntry up to the await of the delete request; the list the
\* handler will filter is the one of the render it was created in.
deleteKey(provider, apiKey) ==
  /\ ControlsEnabled
  /\ deleteKeyCall = NoDeleteKey
  /\ \E i \in 1..Len(providerKeys[provider]) : providerKeys[provider][i].apiKey = apiKey
  /\ deleteKeyCall' = [provider |-> provider, apiKey |-> apiKey,
                       closure |-> providerKeys[provider]]
  /\ UNCHANGED <<providerKeys, configStore, backendKeys, configSwitchingKey, switchCall,
                 switchCalls, lastSwitch, savedToggles>>

\* The delete request resolved: the filtered list goes to the state and to the store.
deleteKeyResolved ==
  /\ deleteKeyCall # NoDeleteKey
  /\ LET next == SelectSeq(deleteKeyCall.closure,
                           LAMBDA item : item.apiKey # deleteKeyCall.apiKey)
     IN /\ providerKeys' = [providerKeys EXCEPT ![deleteKeyCall.provider] = next]
        /\ configStore' = [configStore EXCEPT ![deleteKeyCall.provider] = next]
  /\ backendKeys' = [backendKeys EXCEPT ![deleteKeyCall.provider] =
                       SelectSeq(@, LAMBDA item : item.apiKey # deleteKeyCall.apiKey)]
  /\ deleteKeyCall' = NoDeleteKey
  /\ UNCHANGED <<configSwitchingKey, switchCall, switchCalls, lastSwitch, savedToggles>>

\* The delete request rejected: a notification.
deleteKeyRejected ==
  /\ deleteKeyCall # NoDeleteKey
  /\ deleteKeyCall' = NoDeleteKey
  /\ UNCHANGED <<providerKeys, configStore, backendKeys, configSwitchingKey, switchCall,
                 switchCalls, lastSwitch, savedToggles>>

ConfigKeys == {<<"gemini", "g1">>, <<"gemini", "g2">>, <<"codex", "c1">>, <<"claude", "k1">>}

\* After loadConfigs: the lists of the backend are in the state and in the store.
SwitchInit ==
  /\ providerKeys = LoadedKeys
  /\ configStore = LoadedKeys
  /\ backendKeys = LoadedKeys
  /\ configSwitchingKey = "null"
  /\ switchCall = NoSwitch
  /\ deleteKeyCall = NoDeleteKey
  /\ switchCalls = 0
  /\ lastSwitch = NotSwitched
  /\ savedToggles = [k \in ConfigKeys |-> "none"]

SwitchNext ==
  \/ \E provider \in ConfigProviders, index \in 1..2, enabled \in BOOLEAN :
        setConfigEnabled(provider, index, enabled) /\ UNCHANGED <<pollVars, pageVars, cardVars, fetchVars, pureVars, mergeVars, excludedVars, providerVars, reloadVars, deleteVars, pagerVars, modalVars, ampcodeVars>>
  \/ saveKeysResolved /\ UNCHANGED <<pollVars, pageVars, cardVars, fetchVars, pureVars, mergeVars, excludedVars, providerVars, reloadVars, deleteVars, pagerVars, modalVars, ampcodeVars>>
  \/ saveKeysRejected /\ UNCHANGED <<pollVars, pageVars, cardVars, fetchVars, pureVars, mergeVars, excludedVars, providerVars, reloadVars, deleteVars, pagerVars, modalVars, ampcodeVars>>
  \/ \E k \in ConfigKeys : deleteKey(k[1], k[2]) /\ UNCHANGED <<pollVars, pageVars, cardVars, fetchVars, pureVars, mergeVars, excludedVars, providerVars, reloadVars, deleteVars, pagerVars, modalVars, ampcodeVars>>
  \/ deleteKeyResolved /\ UNCHANGED <<pollVars, pageVars, cardVars, fetchVars, pureVars, mergeVars, excludedVars, providerVars, reloadVars, deleteVars, pagerVars, modalVars, ampcodeVars>>
  \/ deleteKeyRejected /\ UNCHANGED <<pollVars, pageVars, cardVars, fetchVars, pureVars, mergeVars, excludedVars, providerVars, reloadVars, deleteVars, pagerVars, modalVars, ampcodeVars>>

\* ---- deleting auth files (AuthFilesPage.tsx) ----

\* The auth files of the page: name, type, and the runtime_only field as the backend sent
\* it (a boolean, a string, or nothing).
AuthFile(name, type, raw) == [name |-> name, type |-> type, raw |-> raw]
RawBoolean(b) == [type |-> "boolean", bool |-> b, str |-> <<>>]
RawString(x) == [type |-> "string", bool |-> FALSE, str |-> x]
RawMissing == [type |-> "undefined", bool |-> FALSE, str |-> <<>>]

PageFiles ==
  { AuthFile("f1", "codex", RawBoolean(FALSE)),
    AuthFile("f2", "codex", RawBoolean(TRUE)),
    AuthFile("f3", "codex", RawString(<<" ", "T", "R", "U", "E">>)),
    AuthFile("f4", "codex", RawMissing),
    AuthFile("f5", "gemini", RawString(<<"n", "o">>)) }

NameRank(name) == CHOOSE k \in 1..5 : name = <<"f1", "f2", "f3", "f4", "f5">>[k]

PageFileNames == {f.name : f \in PageFiles}
FileNamed(name) == CHOOSE f \in PageFiles : f.name = name

LowerBoolChar(c) ==
  CASE c = "T" -> "t" [] c = "R" -> "r" [] c = "U" -> "u" [] c = "E" -> "e" [] OTHER -> c

isRuntimeOnlyAuthFile_booleanOnly(file) == file.raw.type = "boolean" /\ file.raw.bool

\* raw = file['runtime_only'] ?? file.runtimeOnly; a boolean as it is, a string when its
\* trimmed lower-case form is 'true', anything else false.
isRuntimeOnlyAuthFile(file) ==
  IF file.raw.type = "boolean" THEN file.raw.bool
  ELSE IF file.raw.type = "string"
       THEN [i \in 1..Len(Trim(file.raw.str)) |-> LowerBoolChar(Trim(file.raw.str)[i])]
              = <<"t", "r", "u", "e">>
       ELSE FALSE

\* The names in the order of the list.
RECURSIVE SortedNames(_)
SortedNames(S) ==
  IF S = {} THEN <<>>
  ELSE LET first == CHOOSE x \in S : \A y \in S : NameRank(x) <= NameRank(y)
       IN <<first>> \o SortedNames(S \ {first})

NoDeleteAll == [phase |-> "idle", filesToDelete |-> <<>>, pos |-> 0, deletedNames |-> {},
                failed |-> 0]
NothingSettled == [kind |-> "none", name |-> "", ok |-> FALSE]

DeletesUnderWay == {n \in PageFileNames : singleDeletes[n] > 0}

\* handleDelete up to the await (the confirm was accepted). The delete button of a row is
\* disabled while `deleting` is its name.
singleDelete(name) ==
  /\ name \in listedFiles
  /\ deletingMarker # name
  /\ deleteCallsMade < MaxDeleteCalls
  /\ deletingMarker' = name
  /\ singleDeletes' = [singleDeletes EXCEPT ![name] = @ + 1]
  /\ deleteCallsMade' = deleteCallsMade + 1
  /\ UNCHANGED <<listedFiles, typeFilter, deletingAll, deleteAllCall, lastNotification,
                 lastDeleteSettled>>
  /\ UNCHANGED filteredOutcomes

\* deleteFile(name) resolved: success notification, the file leaves the list, finally.
singleDeleteResolved(name) ==
  /\ singleDeletes[name] > 0
  /\ singleDeletes' = [singleDeletes EXCEPT ![name] = @ - 1]
  /\ lastNotification' = "auth_files.delete_success"
  /\ listedFiles' = {n \in listedFiles : n # name}
  /\ deletingMarker' = "null"
  /\ lastDeleteSettled' = [kind |-> "single", name |-> name, ok |-> TRUE]
  /\ UNCHANGED <<typeFilter, deletingAll, deleteAllCall, deleteCallsMade>>
  /\ UNCHANGED filteredOutcomes

\* deleteFile(name) rejected: error notification, finally.
singleDeleteRejected(name) ==
  /\ singleDeletes[name] > 0
  /\ singleDeletes' = [singleDeletes EXCEPT ![name] = @ - 1]
  /\ lastNotification' = "notification.delete_failed"
  /\ deletingMarker' = "null"
  /\ lastDeleteSettled' = [kind |-> "single", name |-> name, ok |-> FALSE]
  /\ UNCHANGED <<listedFiles, typeFilter, deletingAll, deleteAllCall, deleteCallsMade>>
  /\ UNCHANGED filteredOutcomes

\* The type filter of the page is set.
setFilter(type) ==
  /\ type # typeFilter
  /\ deleteAllCall = NoDeleteAll
  /\ typeFilter' = type
  /\ UNCHANGED <<listedFiles, deletingMarker, deletingAll, singleDeletes, deleteAllCall,
                 deleteCallsMade, lastNotification, lastDeleteSettled>>
  /\ UNCHANGED filteredOutcomes

\* files.filter((f) => f.type === filter && !isRuntimeOnlyAuthFile(f)), in list order
FilesToDelete ==
  SortedNames({n \in listedFiles : FileNamed(n).type = typeFilter
                                     /\ ~isRuntimeOnlyAuthFile(FileNamed(n))})

\* handleDeleteAll up to its first await (the confirm was accepted); the button is
\* disabled while deletingAll.
handleDeleteAll ==
  /\ ~deletingAll
  /\ deleteCallsMade < MaxDeleteCalls
  /\ deleteCallsMade' = deleteCallsMade + 1
  /\ IF typeFilter = "all"
     THEN /\ deletingAll' = TRUE
          /\ deleteAllCall' = [NoDeleteAll EXCEPT !.phase = "all"]
          /\ UNCHANGED lastNotification
     ELSE IF FilesToDelete = <<>>
     THEN /\ lastNotification' = "auth_files.delete_filtered_none"
          /\ deletingAll' = FALSE
          /\ UNCHANGED deleteAllCall
     ELSE /\ deletingAll' = TRUE
          /\ deleteAllCall' = [NoDeleteAll EXCEPT !.phase = "loop",
                                                  !.filesToDelete = FilesToDelete, !.pos = 1]
          /\ UNCHANGED lastNotification
  /\ filteredOutcomes' = IF typeFilter # "all" /\ FilesToDelete # <<>>
                          THEN [n \in PageFileNames |-> "none"] ELSE filteredOutcomes
  /\ UNCHANGED <<listedFiles, typeFilter, deletingMarker, singleDeletes, lastDeleteSettled>>

\* authFilesApi.deleteAll() resolved: the runtime-only files stay.
deleteAllResolved ==
  /\ deleteAllCall.phase = "all"
  /\ lastNotification' = "auth_files.delete_all_success"
  /\ listedFiles' = {n \in listedFiles : isRuntimeOnlyAuthFile(FileNamed(n))}
  /\ deletingAll' = FALSE
  /\ deleteAllCall' = NoDeleteAll
  /\ lastDeleteSettled' = [kind |-> "all", name |-> "", ok |-> TRUE]
  /\ UNCHANGED <<typeFilter, deletingMarker, singleDeletes, deleteCallsMade>>
  /\ UNCHANGED filteredOutcomes

deleteAllRejected ==
  /\ deleteAllCall.phase = "all"
  /\ lastNotification' = "notification.delete_failed"
  /\ deletingAll' = FALSE
  /\ deleteAllCall' = NoDeleteAll
  /\ lastDeleteSettled' = [kind |-> "all", name |-> "", ok |-> FALSE]
  /\ UNCHANGED <<listedFiles, typeFilter, deletingMarker, singleDeletes, deleteCallsMade>>
  /\ UNCHANGED filteredOutcomes

\* One deleteFile of the filtered loop settled; after the last one the deleted names
\* leave the list, the result is notified, the filter goes back to 'all', finally.
filteredDeleteSettled(ok) ==
  /\ deleteAllCall.phase = "loop"
  /\ LET call == deleteAllCall
         name == call.filesToDelete[call.pos]
         deletedNames == IF ok THEN call.deletedNames \cup {name} ELSE call.deletedNames
         failed == IF ok THEN call.failed ELSE call.failed + 1
     IN /\ lastDeleteSettled' = [kind |-> "filtered", name |-> name, ok |-> ok]
        /\ filteredOutcomes' = [filteredOutcomes EXCEPT ![name] = IF ok THEN "ok" ELSE "failed"]
        /\ IF call.pos < Len(call.filesToDelete)
           THEN /\ deleteAllCall' = [call EXCEPT !.pos = @ + 1, !.deletedNames = deletedNames,
                                                 !.failed = failed]
                /\ UNCHANGED <<listedFiles, typeFilter, deletingAll, lastNotification>>
           ELSE /\ listedFiles' = {n \in listedFiles : n \notin deletedNames}
                /\ lastNotification' = IF failed = 0 THEN "auth_files.delete_filtered_success"
                                       ELSE "auth_files.delete_filtered_partial"
                /\ typeFilter' = "all"
                /\ deletingAll' = FALSE
                /\ deleteAllCall' = NoDeleteAll
  /\ UNCHANGED <<deletingMarker, singleDeletes, deleteCallsMade>>

\* After the list request of the mount effect resolved.
DeleteInit ==
  /\ listedFiles = PageFileNames
  /\ typeFilter = "all"
  /\ deletingMarker = "null"
  /\ deletingAll = FALSE
  /\ singleDeletes = [n \in PageFileNames |-> 0]
  /\ deleteAllCall = NoDeleteAll
  /\ deleteCallsMade = 0
  /\ lastNotification = ""
  /\ lastDeleteSettled = NothingSettled
  /\ filteredOutcomes = [n \in PageFileNames |-> "none"]

DeleteNext ==
  \/ \E name \in PageFileNames : singleDelete(name) /\ UNCHANGED <<pollVars, pageVars, cardVars, fetchVars, pureVars, mergeVars, excludedVars, providerVars, reloadVars, switchVars, pagerVars, modalVars, ampcodeVars>>
  \/ \E name \in PageFileNames : singleDeleteResolved(name) /\ UNCHANGED <<pollVars, pageVars, cardVars, fetchVars, pureVars, mergeVars, excludedVars, providerVars, reloadVars, switchVars, pagerVars, modalVars, ampcodeVars>>
  \/ \E name \in PageFileNames : singleDeleteRejected(name) /\ UNCHANGED <<pollVars, pageVars, cardVars, fetchVars, pureVars, mergeVars, excludedVars, providerVars, reloadVars, switchVars, pagerVars, modalVars, ampcodeVars>>
  \/ \E type \in {"all", "codex", "gemini", "qwen"} : setFilter(type) /\ UNCHANGED <<pollVars, pageVars, cardVars, fetchVars, pureVars, mergeVars, excludedVars, providerVars, reloadVars, switchVars, pagerVars, modalVars, ampcodeVars>>
  \/ handleDeleteAll /\ UNCHANGED <<pollVars, pageVars, cardVars, fetchVars, pureVars, mergeVars, excludedVars, providerVars, reloadVars, switchVars, pagerVars, modalVars, ampcodeVars>>
  \/ deleteAllResolved /\ UNCHANGED <<pollVars, pageVars, cardVars, fetchVars, pureVars, mergeVars, excludedVars, providerVars, reloadVars, switchVars, pagerVars, modalVars, ampcodeVars>>
  \/ deleteAllRejected /\ UNCHANGED <<pollVars, pageVars, cardVars, fetchVars, pureVars, mergeVars, excludedVars, providerVars, reloadVars, switchVars, pagerVars, modalVars, ampcodeVars>>
  \/ \E ok \in BOOLEAN : filteredDeleteSettled(ok) /\ UNCHANGED <<pollVars, pageVars, cardVars, fetchVars, pureVars, mergeVars, excludedVars, providerVars, reloadVars, switchVars, pagerVars, modalVars, ampcodeVars>>

\* ---- pagination of the auth-file cards (AuthFilesPage.tsx) ----

\* File n is named "f", is of type codex when n is odd and gemini otherwise.
PagerFileName(n) == <<"f">>
PagerFileType(n) == IF n % 2 = 1 THEN <<"c", "o">> ELSE <<"g", "e">>
PagerTypes == {<<"c", "o">>, <<"g", "e">>}
FilterAll == <<"a", "l", "l">>

\* What the search box can hold.
SearchTexts == {<<>>, <<" ", "C", "o">>, <<"f">>, <<"z">>}

\* The callback of files.filter in the `filtered` memo.
MatchesFilter(n) ==
  LET matchType == filter = FilterAll \/ filter = PagerFileType(n)
      term == LowerCased(Trim(search))
      matchSearch == \/ term = <<>>
                     \/ Includes(LowerCased(PagerFileName(n)), term)
                     \/ Includes(LowerCased(PagerFileType(n)), term)
  IN matchType /\ matchSearch

\* filtered, in list order (the list is kept by file number)
filtered == SortedSeq({n \in cardList : MatchesFilter(n)})

\* Math.max(1, Math.ceil(filtered.length / pageSize))
totalPages ==
  LET ceil == (Len(filtered) + pageSize - 1) \div pageSize
  IN IF ceil > 1 THEN ceil ELSE 1

currentPage_unclamped == page

\* Math.min(page, totalPages)
currentPage == IF page < totalPages THEN page ELSE totalPages

\* filtered.slice(start, start + pageSize)
pageItems ==
  LET start == (currentPage - 1) * pageSize
      last == IF start + pageSize < Len(filtered) THEN start + pageSize ELSE Len(filtered)
  IN SubSeq(filtered, start + 1, last)

\* The pagination buttons are rendered when filtered.length > pageSize.
PaginationShown == Len(filtered) > pageSize

prevPage ==
  /\ PaginationShown
  /\ ~(currentPage <= 1)
  /\ page' = IF currentPage - 1 > 1 THEN currentPage - 1 ELSE 1
  /\ UNCHANGED <<cardList, filter, search, pageSize>>

nextPage ==
  /\ PaginationShown
  /\ ~(currentPage >= totalPages)
  /\ page' = IF currentPage + 1 < totalPages THEN currentPage + 1 ELSE totalPages
  /\ UNCHANGED <<cardList, filter, search, pageSize>>

\* A filter tag is clicked: setFilter(type); setPage(1).
clickFilterTag(type) ==
  /\ filter' = type
  /\ page' = 1
  /\ UNCHANGED <<cardList, search, pageSize>>

\* The search box changes: setSearch(e.target.value); setPage(1).
changeSearch(text) ==
  /\ search' = text
  /\ page' = 1
  /\ UNCHANGED <<cardList, filter, pageSize>>

\* The page-size select: setPageSize(Number(e.target.value) || 9); setPage(1).
selectPageSize(option) ==
  /\ pageSize' = IF option # 0 THEN option ELSE 9
  /\ page' = 1
  /\ UNCHANGED <<cardList, filter, search>>

\* Math.min(MAX_CARD_PAGE_SIZE, Math.max(MIN_CARD_PAGE_SIZE, Math.round(value))), the value
\* in tenths
clampCardPageSize(tenths) ==
  LET rounded == MathRound(tenths) \div 10
      atLeast == IF rounded > MIN_CARD_PAGE_SIZE THEN rounded ELSE MIN_CARD_PAGE_SIZE
  IN IF atLeast < MAX_CARD_PAGE_SIZE THEN atLeast ELSE MAX_CARD_PAGE_SIZE

\* handlePageSizeChange of the number input: valueAsNumber is NaN for an empty box.
handlePageSizeChange(value) ==
  /\ value # NaN
  /\ pageSize' = clampCardPageSize(value.num)
  /\ page' = 1
  /\ UNCHANGED <<cardList, filter, search>>

\* loadFiles resolved with the files the backend lists.
pagerFilesLoaded(listed) ==
  /\ cardList' = listed
  /\ UNCHANGED <<filter, search, page, pageSize>>

\* handleDelete resolved: the file leaves the list.
pagerFileDeleted(n) ==
  /\ n \in cardList
  /\ cardList' = cardList \ {n}
  /\ UNCHANGED <<filter, search, page, pageSize>>

\* The filtered delete-all ended: its files leave the list and the filter is 'all' again.
pagerFilteredDeleted ==
  /\ filter # FilterAll
  /\ cardList' = {n \in cardList : PagerFileType(n) # filter}
  /\ filter' = FilterAll
  /\ UNCHANGED <<search, page, pageSize>>

PagerInit ==
  /\ cardList = {}
  /\ filter = FilterAll
  /\ search = <<>>
  /\ page = 1
  /\ pageSize = 9

PagerNext ==
  \/ prevPage /\ UNCHANGED <<pollVars, pageVars, cardVars, fetchVars, pureVars, mergeVars, excludedVars, providerVars, reloadVars, switchVars, deleteVars, modalVars, ampcodeVars>>
  \/ nextPage /\ UNCHANGED <<pollVars, pageVars, cardVars, fetchVars, pureVars, mergeVars, excludedVars, providerVars, reloadVars, switchVars, deleteVars, modalVars, ampcodeVars>>
  \/ \E type \in {FilterAll} \cup PagerTypes : clickFilterTag(type) /\ UNCHANGED <<pollVars, pageVars, cardVars, fetchVars, pureVars, mergeVars, excludedVars, providerVars, reloadVars, switchVars, deleteVars, modalVars, ampcodeVars>>
  \/ \E text \in SearchTexts : changeSearch(text) /\ UNCHANGED <<pollVars, pageVars, cardVars, fetchVars, pureVars, mergeVars, excludedVars, providerVars, reloadVars, switchVars, deleteVars, modalVars, ampcodeVars>>
  \/ \E option \in {6, 9, 12, 18, 24} : selectPageSize(option) /\ UNCHANGED <<pollVars, pageVars, cardVars, fetchVars, pureVars, mergeVars, excludedVars, providerVars, reloadVars, switchVars, deleteVars, modalVars, ampcodeVars>>
  \/ \E value \in {NaN, Num(0 - 10), Num(4), Num(25), Num(30), Num(44), Num(304), Num(310)} :
        handlePageSizeChange(value) /\ UNCHANGED <<pollVars, pageVars, cardVars, fetchVars, pureVars, mergeVars, excludedVars, providerVars, reloadVars, switchVars, deleteVars, modalVars, ampcodeVars>>
  \/ \E listed \in {{}, 1..NumPagerFiles, 1..(NumPagerFiles - 3)} :
        pagerFilesLoaded(listed) /\ UNCHANGED <<pollVars, pageVars, cardVars, fetchVars, pureVars, mergeVars, excludedVars, providerVars, reloadVars, switchVars, deleteVars, modalVars, ampcodeVars>>
  \/ \E n \in 1..NumPagerFiles : pagerFileDeleted(n) /\ UNCHANGED <<pollVars, pageVars, cardVars, fetchVars, pureVars, mergeVars, excludedVars, providerVars, reloadVars, switchVars, deleteVars, modalVars, ampcodeVars>>
  \/ pagerFilteredDeleted /\ UNCHANGED <<pollVars, pageVars, cardVars, fetchVars, pureVars, mergeVars, excludedVars, providerVars, reloadVars, switchVars, deleteVars, modalVars, ampcodeVars>>

\* ---- the Modal component (components/ui/Modal) ----

NoTimer == [set |-> FALSE, notifyParent |-> FALSE, onClose |-> 0, delay |-> 0]

\* The dependencies of the effect; startClose is a new function whenever onClose is.
ModalDeps == <<open, isVisible, onClose>>

\* React runs the effect after a render in which its dependencies changed, before the
\* next event is handled.
EffectPending == effectDeps # ModalDeps

\* The parent renders: the inline `() => setDetailModalOpen(false)` is a new function.
ParentRenders == onClose' = onClose + 1

\* startClose(notifyParent): nothing while a close timer is set.
startClose(notifyParent) ==
  IF closeTimerRef # NoTimer
  THEN UNCHANGED <<isClosing, closeTimerRef, timersScheduled>>
  ELSE /\ isClosing' = TRUE
       /\ closeTimerRef' = [set |-> TRUE, notifyParent |-> notifyParent, onClose |-> onClose,
                            delay |-> CLOSE_ANIMATION_DURATION]
       /\ timersScheduled' = timersScheduled + 1

\* The effect on [open, isVisible, startClose].
modalEffect ==
  /\ EffectPending
  /\ effectDeps' = ModalDeps
  /\ IF open
     THEN /\ closeTimerRef' = NoTimer
          /\ isVisible' = TRUE
          /\ isClosing' = FALSE
          /\ UNCHANGED timersScheduled
     ELSE IF isVisible
     THEN startClose(FALSE) /\ UNCHANGED isVisible
     ELSE UNCHANGED <<isVisible, isClosing, closeTimerRef, timersScheduled>>
  /\ UNCHANGED <<open, onClose, onCloseCalls, awaitingClose>>

\* The parent opens the modal.
parentOpens ==
  /\ ~EffectPending
  /\ ~open
  /\ onClose < MaxParentRenders
  /\ open' = TRUE
  /\ ParentRenders
  /\ timersScheduled' = 0
  /\ UNCHANGED <<isVisible, isClosing, closeTimerRef, effectDeps, onCloseCalls, awaitingClose>>

\* The parent closes the modal itself (a footer button): setDetailModalOpen(false).
parentCloses ==
  /\ ~EffectPending
  /\ open
  /\ onClose < MaxParentRenders
  /\ open' = FALSE
  /\ ParentRenders
  /\ UNCHANGED <<isVisible, isClosing, closeTimerRef, effectDeps, onCloseCalls, awaitingClose,
                 timersScheduled>>

\* The parent renders for a reason of its own (its polling, a notification).
parentRerenders ==
  /\ ~EffectPending
  /\ onClose < MaxParentRenders
  /\ ParentRenders
  /\ UNCHANGED <<open, isVisible, isClosing, closeTimerRef, effectDeps, onCloseCalls,
                 awaitingClose, timersScheduled>>

\* handleClose, from a click on the close button of the rendered modal.
handleClose ==
  /\ ~EffectPending
  /\ open \/ isVisible
  /\ startClose(TRUE)
  /\ awaitingClose' = (awaitingClose \/ open)
  /\ UNCHANGED <<open, onClose, isVisible, effectDeps, onCloseCalls>>

\* The callback of the close timer; the onClose it holds sets the parent's `open` to false.
closeTimerFires ==
  /\ ~EffectPending
  /\ closeTimerRef # NoTimer
  /\ isVisible' = FALSE
  /\ isClosing' = FALSE
  /\ closeTimerRef' = NoTimer
  /\ IF closeTimerRef.notifyParent
     THEN /\ onCloseCalls' = onCloseCalls + 1
          /\ awaitingClose' = FALSE
          /\ open' = FALSE
          /\ onClose' = IF open /\ onClose < MaxParentRenders THEN onClose + 1 ELSE onClose
     ELSE UNCHANGED <<onCloseCalls, awaitingClose, open, onClose>>
  /\ UNCHANGED <<effectDeps, timersScheduled>>

\* After the first render and its effect, the modal closed.
ModalInit ==
  /\ open = FALSE
  /\ onClose = 0
  /\ isVisible = FALSE
  /\ isClosing = FALSE
  /\ closeTimerRef = NoTimer
  /\ effectDeps = <<FALSE, FALSE, 0>>
  /\ onCloseCalls = 0
  /\ awaitingClose = FALSE
  /\ timersScheduled = 0

ModalNext ==
  \/ modalEffect /\ UNCHANGED <<pollVars, pageVars, cardVars, fetchVars, pureVars, mergeVars, excludedVars, providerVars, reloadVars, switchVars, deleteVars, pagerVars, ampcodeVars>>
  \/ parentOpens /\ UNCHANGED <<pollVars, pageVars, cardVars, fetchVars, pureVars, mergeVars, excludedVars, providerVars, reloadVars, switchVars, deleteVars, pagerVars, ampcodeVars>>
  \/ parentCloses /\ UNCHANGED <<pollVars, pageVars, cardVars, fetchVars, pureVars, mergeVars, excludedVars, providerVars, reloadVars, switchVars, deleteVars, pagerVars, ampcodeVars>>
  \/ parentRerenders /\ UNCHANGED <<pollVars, pageVars, cardVars, fetchVars, pureVars, mergeVars, excludedVars, providerVars, reloadVars, switchVars, deleteVars, pagerVars, ampcodeVars>>
  \/ handleClose /\ UNCHANGED <<pollVars, pageVars, cardVars, fetchVars, pureVars, mergeVars, excludedVars, providerVars, reloadVars, switchVars, deleteVars, pagerVars, ampcodeVars>>
  \/ closeTimerFires /\ UNCHANGED <<pollVars, pageVars, cardVars, fetchVars, pureVars, mergeVars, excludedVars, providerVars, reloadVars, switchVars, deleteVars, pagerVars, ampcodeVars>>

\* ---- the Ampcode form (AiProvidersPage.tsx) ----

\* A list of model mappings is named by a letter; "none" is the empty or absent list.
MappingLists == {"none", "cached", "server", "typed"}

NoSave == [stage |-> "idle", loaded |-> FALSE, dirty |-> FALSE, confirmed |-> FALSE,
           mappings |-> "none", previous |-> "none", overrideKey |-> FALSE]

WritesMappings_always(loaded, dirty) == TRUE

\* if (ampcodeLoaded || ampcodeMappingsDirty), before the mappings request and before
\* next.modelMappings is set
WritesMappings(loaded, dirty) == loaded \/ dirty

\* openAmpcodeModal up to the await of getAmpcode: the form shows the cached config.
openAmpcodeModal ==
  /\ ~ampcodeModal
  /\ ampcodeOpens < MaxAmpcodeOpens
  /\ ampcodeOpens' = ampcodeOpens + 1
  /\ ampcodeModalLoading' = TRUE
  /\ ampcodeLoaded' = FALSE
  /\ ampcodeMappingsDirty' = FALSE
  /\ formMappings' = storeMappings
  /\ ampcodeModal' = TRUE
  /\ ampcodeLoads' = ampcodeLoads + 1
  /\ UNCHANGED <<ampcodeSaving, storeMappings, serverMappings, saveCall, mappingWrites>>

\* getAmpcode resolved: setAmpcodeLoaded(true), the store and the form take the answer.
getAmpcodeResolved ==
  /\ ampcodeLoads > 0
  /\ ampcodeLoads' = ampcodeLoads - 1
  /\ ampcodeLoaded' = TRUE
  /\ storeMappings' = serverMappings
  /\ formMappings' = serverMappings
  /\ ampcodeModalLoading' = FALSE
  /\ UNCHANGED <<ampcodeModal, ampcodeMappingsDirty, ampcodeSaving, serverMappings,
                 ampcodeOpens, saveCall, mappingWrites>>

\* getAmpcode rejected: the modal shows the error.
getAmpcodeRejected ==
  /\ ampcodeLoads > 0
  /\ ampcodeLoads' = ampcodeLoads - 1
  /\ ampcodeModalLoading' = FALSE
  /\ UNCHANGED <<ampcodeModal, ampcodeLoaded, ampcodeMappingsDirty, ampcodeSaving,
                 formMappings, storeMappings, serverMappings, ampcodeOpens, saveCall,
                 mappingWrites>>

\* The mapping entries are edited: setAmpcodeMappingsDirty(true).
editMappingEntries(mappings) ==
  /\ ampcodeModal
  /\ ~(ampcodeModalLoading \/ ampcodeSaving)
  /\ formMappings' = mappings
  /\ ampcodeMappingsDirty' = TRUE
  /\ UNCHANGED <<ampcodeModal, ampcodeModalLoading, ampcodeLoaded, ampcodeSaving,
                 storeMappings, serverMappings, ampcodeLoads, ampcodeOpens, saveCall,
                 mappingWrites>>

\* closeModal, from the cancel button of the Ampcode modal.
closeAmpcodeModal ==
  /\ ampcodeModal
  /\ ~ampcodeSaving
  /\ ampcodeModal' = FALSE
  /\ formMappings' = "none"
  /\ ampcodeModalLoading' = FALSE
  /\ ampcodeLoaded' = FALSE
  /\ ampcodeMappingsDirty' = FALSE
  /\ ampcodeSaving' = FALSE
  /\ UNCHANGED <<storeMappings, serverMappings, ampcodeLoads, ampcodeOpens, saveCall,
                 mappingWrites>>

\* saveAmpcode up to its first await; `confirmed` is the answer to window.confirm.
saveAmpcode(confirmed, overrideKey) ==
  /\ ampcodeModal
  /\ mappingWrites < MaxMappingWrites
  /\ ~(ampcodeModalLoading \/ ampcodeSaving)
  /\ IF ~ampcodeLoaded /\ ampcodeMappingsDirty /\ ~confirmed
     THEN UNCHANGED <<ampcodeSaving, saveCall>>
     ELSE /\ ampcodeSaving' = TRUE
          /\ saveCall' = [stage |-> "upstreamUrl", loaded |-> ampcodeLoaded,
                          dirty |-> ampcodeMappingsDirty,
                          confirmed |-> (~ampcodeLoaded /\ ampcodeMappingsDirty /\ confirmed),
                          mappings |-> formMappings, previous |-> storeMappings,
                          overrideKey |-> overrideKey]
  /\ UNCHANGED <<ampcodeModal, ampcodeModalLoading, ampcodeLoaded, ampcodeMappingsDirty,
                 formMappings, storeMappings, serverMappings, ampcodeLoads, ampcodeOpens,
                 mappingWrites>>

\* The request saveAmpcode awaits after the one of `stage`, "done" after the last.
StageAfter(call, stage) ==
  CASE stage = "upstreamUrl" -> "forceModelMappings"
    [] stage = "forceModelMappings" ->
         IF WritesMappings(call.loaded, call.dirty) THEN "modelMappings"
         ELSE IF call.overrideKey THEN "upstreamApiKey" ELSE "done"
    [] stage = "modelMappings" -> IF call.overrideKey THEN "upstreamApiKey" ELSE "done"
    [] OTHER -> "done"

\* next.modelMappings: the previous list, replaced or deleted when the mappings were written.
NextMappings(call) ==
  IF WritesMappings(call.loaded, call.dirty) THEN call.mappings ELSE call.previous

\* The request saveAmpcode awaits resolved; after the last one the store is updated and
\* closeModal() runs, then the finally.
ampcodeRequestResolved ==
  /\ saveCall.stage # "idle"
  /\ IF saveCall.stage = "modelMappings"
     THEN serverMappings' = saveCall.mappings /\ mappingWrites' = mappingWrites + 1
     ELSE UNCHANGED <<serverMappings, mappingWrites>>
  /\ IF StageAfter(saveCall, saveCall.stage) # "done"
     THEN /\ saveCall' = [saveCall EXCEPT !.stage = StageAfter(saveCall, @)]
          /\ UNCHANGED <<ampcodeModal, ampcodeModalLoading, ampcodeLoaded,
                         ampcodeMappingsDirty, ampcodeSaving, formMappings, storeMappings>>
     ELSE /\ storeMappings' = NextMappings(saveCall)
          /\ ampcodeModal' = FALSE
          /\ formMappings' = "none"
          /\ ampcodeModalLoading' = FALSE
          /\ ampcodeLoaded' = FALSE
          /\ ampcodeMappingsDirty' = FALSE
          /\ ampcodeSaving' = FALSE
          /\ saveCall' = NoSave
  /\ UNCHANGED <<ampcodeLoads, ampcodeOpens>>

\* The request rejected: the catch shows the error, the finally ends the saving.
ampcodeRequestRejected ==
  /\ saveCall.stage # "idle"
  /\ ampcodeSaving' = FALSE
  /\ saveCall' = NoSave
  /\ UNCHANGED <<ampcodeModal, ampcodeModalLoading, ampcodeLoaded, ampcodeMappingsDirty,
                 formMappings, storeMappings, serverMappings, ampcodeLoads, ampcodeOpens,
                 mappingWrites>>

\* After loadConfigs: the store holds what it cached, the backend what it holds by now.
AmpcodeInit ==
  /\ ampcodeModal = FALSE
  /\ ampcodeModalLoading = FALSE
  /\ ampcodeLoaded = FALSE
  /\ ampcodeMappingsDirty = FALSE
  /\ ampcodeSaving = FALSE
  /\ formMappings = "none"
  /\ storeMappings = "cached"
  /\ serverMappings = "server"
  /\ ampcodeLoads = 0
  /\ ampcodeOpens = 0
  /\ saveCall = NoSave
  /\ mappingWrites = 0

AmpcodeNext ==
  \/ openAmpcodeModal /\ UNCHANGED <<pollVars, pageVars, cardVars, fetchVars, pureVars, mergeVars, excludedVars, providerVars, reloadVars, switchVars, deleteVars, pagerVars, modalVars>>
  \/ getAmpcodeResolved /\ UNCHANGED <<pollVars, pageVars, cardVars, fetchVars, pureVars, mergeVars, excludedVars, providerVars, reloadVars, switchVars, deleteVars, pagerVars, modalVars>>
  \/ getAmpcodeRejected /\ UNCHANGED <<pollVars, pageVars, cardVars, fetchVars, pureVars, mergeVars, excludedVars, providerVars, reloadVars, switchVars, deleteVars, pagerVars, modalVars>>
  \/ \E mappings \in {"none", "typed"} : editMappingEntries(mappings) /\ UNCHANGED <<pollVars, pageVars, cardVars, fetchVars, pureVars, mergeVars, excludedVars, providerVars, reloadVars, switchVars, deleteVars, pagerVars, modalVars>>
  \/ closeAmpcodeModal /\ UNCHANGED <<pollVars, pageVars, cardVars, fetchVars, pureVars, mergeVars, excludedVars, providerVars, reloadVars, switchVars, deleteVars, pagerVars, modalVars>>
  \/ \E confirmed \in BOOLEAN, overrideKey \in BOOLEAN :
        saveAmpcode(confirmed, overrideKey) /\ UNCHANGED <<pollVars, pageVars, cardVars, fetchVars, pureVars, mergeVars, excludedVars, providerVars, reloadVars, switchVars, deleteVars, pagerVars, modalVars>>
  \/ ampcodeRequestResolved /\ UNCHANGED <<pollVars, pageVars, cardVars, fetchVars, pureVars, mergeVars, excludedVars, providerVars, reloadVars, switchVars, deleteVars, pagerVars, modalVars>>
  \/ ampcodeRequestRejected /\ UNCHANGED <<pollVars, pageVars, cardVars, fetchVars, pureVars, mergeVars, excludedVars, providerVars, reloadVars, switchVars, deleteVars, pagerVars, modalVars>>

PanelInit == TestInit /\ ReloadInit /\ SwitchInit /\ DeleteInit /\ PagerInit /\ ModalInit /\ AmpcodeInit

\* The other parts of the console at rest.
PollQuiet == PollInit
PageQuiet == PageInit /\ serverQuota = {}
CardQuiet == CardInit /\ missingAuthIndex = {}

InitPolling == PollInit /\ PageQuiet /\ CardQuiet /\ FetchInit /\ PureQuiet /\ MergeInit /\ ExcludedInit /\ PanelInit
InitPage == PollQuiet /\ PageInit /\ CardQuiet /\ FetchInit /\ PureQuiet /\ MergeInit /\ ExcludedInit /\ PanelInit
InitCards == PollQuiet /\ PageQuiet /\ CardInit /\ FetchInit /\ PureQuiet /\ MergeInit /\ ExcludedInit /\ PanelInit
InitFetch == PollQuiet /\ PageQuiet /\ CardQuiet /\ FetchInit /\ PureQuiet /\ MergeInit /\ ExcludedInit /\ PanelInit
FetchQuiet == FetchInit /\ fetchCalls = 0
InitPure == PollQuiet /\ PageQuiet /\ CardQuiet /\ FetchQuiet /\ PureInit /\ MergeInit /\ ExcludedInit /\ PanelInit
InitSession == PollQuiet /\ PageQuiet /\ CardQuiet /\ FetchQuiet /\ PureQuiet /\ MergeInit /\ ExcludedInit /\ PanelInit

SpecPolling == InitPolling /\ [][PollNext]_vars

SpecPage == InitPage /\ [][PageNext]_vars

SpecCards == InitCards /\ [][CardNext]_vars

SpecFetch == InitFetch /\ [][FetchCallNext]_vars

SpecPure == InitPure /\ [][PureNext]_vars

SpecMerge == InitSession /\ [][MergeNext]_vars

SpecExcluded == InitSession /\ [][ExcludedNext]_vars

SpecReload == InitSession /\ [][ReloadNext]_vars

SpecSwitch == InitSession /\ [][SwitchNext]_vars

SpecDelete == InitSession /\ [][DeleteNext]_vars

SpecPager == InitSession /\ [][PagerNext]_vars

SpecModal == InitSession /\ [][ModalNext]_vars

SpecAmpcode == InitSession /\ [][AmpcodeNext]_vars

SpecTest == InitSession /\ [][TestNext]_vars

-----------------------------------------------------------------------------
(* C3: loadKeyStats never overlaps with itself: at most one invocation holds
   the guard, so at most one getUsage request is in flight, and a call made
   while one is pending issues no request. *)
KeyStatsNeverOverlaps ==
  /\ usageInFlight + statsInFlight <= 1
  /\ usageInFlight <= 1

\* A call arrived while a getUsage request was pending and was turned away.
KeyStatsCallSkippedWhilePending ==
  /\ keyStatsLastCall.issued = FALSE
  /\ keyStatsLastCall.caller = "timer"
  /\ usageInFlight = 1

(* C4: the in-flight guard of loadKeyStats is never left stuck: when no
   invocation is in progress (each one that took the guard has finished,
   by success or by a throw) the guard is false. *)
KeyStatsGuardReleased ==
  (usageInFlight + statsInFlight = 0) => (loadingKeyStatsRef = FALSE)

\* An invocation ended by a throw, and a later call issued a new request.
KeyStatsRetriedAfterThrow ==
  /\ keyStatsLastOutcome \in {"getUsageThrew", "getKeyStatsThrew", "collectThrew"}
  /\ keyStatsLastCall.issued
  /\ usageInFlight = 1

(* C5: loadSessionBindings never overlaps with itself: at most one
   listSessionBindings request is in flight. *)
SessionBindingsNeverOverlap == sessionInFlight <= 1

(* C2: at most one quota refresh request is in flight for an auth-file
   identifier. *)
OneRefreshPerFile == \A id \in FileIds : RefreshInFlight(id) <= 1

(* C6: at most AutoBatchSize requests started by auto-refresh are in
   flight. *)
AutoRefreshBounded == AutoInFlight <= AutoBatchSize

BatchFetchesBounded == FetchesInFlight <= AutoBatchSize

CellSettlesOnlyFromLoading ==
  [][\A n \in CardNames :
       (/\ CellStatus(antigravityQuota', n) \in {"success", "error"}
        /\ CellStatus(antigravityQuota', n) # CellStatus(antigravityQuota, n))
         => CellStatus(antigravityQuota, n) = "loading"]_vars

SoftFailures == {"non2xx", "threw", "malformed", "nogroups"}

\* C10: fetchAntigravityQuota contacts the candidate URLs in their fixed
\* order, each at most once; it goes on to the next URL after a non-2xx
\* status, a thrown request error or an empty/malformed model map; it stops
\* at the first URL that yields a quota group, returning its groups; and it
\* throws only after every URL was contacted and failed.
ProbesInOrderUntilGroups ==
  /\ Len(fetchLog) <= Len(ANTIGRAVITY_QUOTA_URLS)
  /\ \A k \in 1..Len(fetchLog) : fetchLog[k].url = ANTIGRAVITY_QUOTA_URLS[k]
  /\ \A k \in 1..(Len(fetchLog) - 1) : fetchLog[k].kind \in SoftFailures
  /\ (fetchState.result = Pending) <=>
       /\ fetchCalls > 0
       /\ Len(fetchLog) < Len(ANTIGRAVITY_QUOTA_URLS)
       /\ \A k \in 1..Len(fetchLog) : fetchLog[k].kind \in SoftFailures
  /\ fetchState.result = Pending => fetchState.idx = Len(fetchLog) + 1
  /\ (Len(fetchLog) > 0 /\ fetchLog[Len(fetchLog)].kind = "groups") =>
       fetchState.result.status = "returned" /\ fetchState.result.groups >= 1
  /\ fetchState.result.status = "threw" =>
       /\ Len(fetchLog) = Len(ANTIGRAVITY_QUOTA_URLS)
       /\ \A k \in 1..Len(fetchLog) : fetchLog[k].kind \in SoftFailures

\* C10 witness: the first URL answered non-2xx, the second a body without
\* models, and the third yielded groups, which the call returned.
FellThroughToThirdUrl ==
  /\ Len(fetchLog) = 3
  /\ fetchLog[1].kind = "non2xx"
  /\ fetchLog[2].kind = "malformed"
  /\ fetchLog[3].kind = "groups"
  /\ fetchState.result.status = "returned"
  /\ fetchState.result.groups >= 1

\* A response that produces a quota group: a 2xx answer whose body is, or
\* is the JSON text of, an object with a `models` object holding a group.
ProducesGroup(resp) ==
  /\ resp.status = "2xx"
  /\ \/ resp.body.form = "object"
     \/ resp.body.form = "string" /\ resp.body.text = "json"
  /\ resp.body.value.kind = "object"
  /\ resp.body.value.models.kind = "object"
  /\ resp.body.value.models.groups > 0

\* C11: when a call of fetchAntigravityQuota has ended, at least one URL
\* answered 2xx and no URL produced a quota group, the call returned an
\* empty group list, and the quota cell made of it is `success` with zero
\* groups, not `error`.
EmptyPayloadIsEmptySuccess ==
  (/\ fetchState.result.status \in {"returned", "threw"}
   /\ \E k \in 1..Len(fetchLog) : fetchLog[k].resp.status = "2xx"
   /\ \A k \in 1..Len(fetchLog) : ~ProducesGroup(fetchLog[k].resp))
    => /\ fetchState.result = Returned(0)
       /\ ItemResult(fetchState.result) = [status |-> "success", groups |-> 0, error |-> ""]

\* C11 witness: the first URL answered non-2xx, the second 2xx with a body
\* that is no JSON, the third 2xx with an object without models, and the
\* call returned no group.
EmptyAfterMalformedBodies ==
  /\ Len(fetchLog) = 3
  /\ fetchLog[1].resp.status = "non2xx"
  /\ fetchLog[2].resp.status = "2xx" /\ fetchLog[2].resp.body.text = "badjson"
  /\ fetchLog[3].resp.status = "2xx" /\ fetchLog[3].resp.body.form = "object"
  /\ fetchLog[3].resp.body.value.models.kind = "missing"
  /\ fetchState.result = Returned(0)

\* The name without its last extension: the part before the last dot, when
\* that dot is followed by at least one character and by no `/`.
WithoutLastExtension(name) ==
  LET dots == {k \in 1..Len(name) : name[k] = "."}
  IN IF dots = {} THEN name
     ELSE LET last == CHOOSE k \in dots : \A j \in dots : j <= k
          IN IF last < Len(name) /\ \A j \in (last + 1)..Len(name) : name[j] # "/"
               THEN SubSeq(name, 1, last - 1)
               ELSE name

Holds(m, key) == m.defined /\ key \in DOMAIN m.map

NonZero(m, key) == Holds(m, key) /\ (m.map[key].success > 0 \/ m.map[key].failure > 0)

\* C12: resolveAuthFileStats returns the first applicable bucket of the
\* chain: byAuthIndex at the file's normalized auth index if present; else
\* bySource at the exact file name if that bucket is nonzero; else bySource
\* at the name without its last extension if that bucket is nonzero; else
\* the zero bucket.
StatsFallbackChain ==
  pureResult.fn = "resolveAuthFileStats" =>
    LET file == pureCall.file
        stats == pureCall.stats
        index == normalizeAuthIndexValue(Coalesce(file.auth_index, file.authIndex))
        stripped == WithoutLastExtension(file.name)
    IN pureResult.value =
         IF index # Null /\ Holds(stats.byAuthIndex, index.str)
           THEN stats.byAuthIndex.map[index.str]
         ELSE IF NonZero(stats.bySource, file.name) THEN stats.bySource.map[file.name]
         ELSE IF NonZero(stats.bySource, stripped) THEN stats.bySource.map[stripped]
         ELSE ZeroBucket

\* C12 witness: no auth index, an all-zero bucket under the exact name
\* "a.a" and a nonzero one under "a": the call returned the bucket of "a".
ZeroExactBucketDidNotHide ==
  /\ pureResult.fn = "resolveAuthFileStats"
  /\ pureCall.file.name = <<"a", ".", "a">>
  /\ pureCall.file.auth_index = Undefined /\ pureCall.file.authIndex = Undefined
  /\ Holds(pureCall.stats.bySource, <<"a", ".", "a">>)
  /\ pureCall.stats.bySource.map[<<"a", ".", "a">>] = ZeroBucket
  /\ Holds(pureCall.stats.bySource, <<"a">>)
  /\ pureResult.value = [success |-> 5, failure |-> 1]
  /\ pureResult.value = pureCall.stats.bySource.map[<<"a">>]

\* The value a string of decimal digits denotes (-1 for anything else).
DigitValue(c) ==
  CASE c = "0" -> 0 [] c = "1" -> 1 [] c = "2" -> 2 [] c = "3" -> 3 [] c = "4" -> 4
    [] c = "5" -> 5 [] c = "6" -> 6 [] c = "7" -> 7 [] c = "8" -> 8 [] c = "9" -> 9
    [] OTHER -> -1
RECURSIVE DecimalValue(_)
DecimalValue(x) ==
  IF x = <<>> THEN 0 ELSE 10 * DecimalValue(SubSeq(x, 1, Len(x) - 1)) + DigitValue(x[Len(x)])

\* x is the canonical decimal numeral of the integer n.
IsNumeralOf(x, n) ==
  /\ x # <<>>
  /\ LET digits == IF x[1] = "-" THEN Tail(x) ELSE x
     IN /\ digits # <<>>
        /\ \A k \in 1..Len(digits) : DigitValue(digits[k]) >= 0
        /\ Len(digits) > 1 => digits[1] # "0"
        /\ (x[1] = "-") <=> (n < 0)
        /\ DecimalValue(digits) = (IF n < 0 THEN 0 - n ELSE n)

\* x without the blanks around it.
Inner(x) ==
  LET solid == {k \in 1..Len(x) : x[k] # " "}
  IN IF solid = {} THEN <<>>
     ELSE SubSeq(x, CHOOSE k \in solid : \A j \in solid : k <= j,
                    CHOOSE k \in solid : \A j \in solid : j <= k)

\* The key the claim gives a raw auth index value.
ClaimedKeyIs(value, key) ==
  CASE value.type = "number" -> key.type = "string" /\ IsNumeralOf(key.str, value.num)
    [] value.type = "string" /\ Inner(value.str) # <<>> -> key = Str(Inner(value.str))
    [] OTHER -> key = Null

\* Strings that can be the key of some raw value: trimmed strings and
\* short numerals.
CandidateKeys ==
  {Str(Inner(x)) : x \in {y \in IndexStrings : Inner(y) # <<>>}}
    \cup {Str(x) : x \in StringsUpTo({"-", "0", "1", "2", "3", "4", "5", "6", "7", "8", "9"}, 2)
                       \ {<<>>}}

\* C13: normalizeAuthIndexValue gives a finite number its decimal string, a
\* string its trimmed form when that is non-empty, and null to everything
\* else; and a usage detail is matched to a file exactly when both indexes
\* have a key and the keys are equal, so that a number on the file matches
\* the same value as a padded string on the detail.
AuthIndexNormalized ==
  /\ pureResult.fn = "normalizeAuthIndexValue" => ClaimedKeyIs(pureCall.value, pureResult.value)
  /\ pureResult.fn = "statusBarCache" =>
       LET f == pureCall.file.auth_index
           d == pureCall.detail.auth_index
       IN /\ (f.type = "number" /\ d.type = "string" /\ IsNumeralOf(Inner(d.str), f.num))
               => pureResult.value = TRUE
          /\ pureResult.value = TRUE =>
               \E key \in CandidateKeys : ClaimedKeyIs(f, key) /\ ClaimedKeyIs(d, key)

\* C13 witness: the file carries the number 11, the usage detail the
\* string " 11 ", and the detail was matched to the file.
NumberMatchedPaddedString ==
  /\ pureResult.fn = "statusBarCache"
  /\ pureCall.file.auth_index = Num(11)
  /\ pureCall.detail.auth_index = Str(<<" ", "1", "1", " ">>)
  /\ pureResult.value = TRUE

\* The bucket the claimed order gives one key: the one stored under the raw
\* key, else the one stored under its masked form, else zero.
ClaimedKeyStats(key, bySource, maskFn) ==
  IF Holds(bySource, key) THEN bySource.map[key]
  ELSE IF Holds(bySource, maskFn[key]) THEN bySource.map[maskFn[key]]
  ELSE ZeroBucket

\* C14: getStatsBySource returns the bucket stored in bySource under the
\* raw key if present, otherwise the one under maskFn(key) if present,
\* otherwise the zero bucket; a missing bySource map gives the zero bucket.
StatsBySourceOrder ==
  pureResult.fn = "getStatsBySource" =>
    pureResult.value =
      ClaimedKeyStats(pureCall.apiKey, pureCall.keyStats.bySource, pureCall.maskFn)

\* C14 witness: bySource holds different buckets under the raw key and
\* under its masked form, and the call returned the raw key's bucket.
RawKeyBucketPreferred ==
  /\ pureResult.fn = "getStatsBySource"
  /\ pureCall.maskFn[pureCall.apiKey] # pureCall.apiKey
  /\ Holds(pureCall.keyStats.bySource, pureCall.apiKey)
  /\ Holds(pureCall.keyStats.bySource, pureCall.maskFn[pureCall.apiKey])
  /\ pureCall.keyStats.bySource.map[pureCall.apiKey] = [success |-> 0, failure |-> 2]
  /\ pureCall.keyStats.bySource.map[pureCall.maskFn[pureCall.apiKey]] = [success |-> 5, failure |-> 1]
  /\ pureResult.value = [success |-> 0, failure |-> 2]

RECURSIVE SumOver(_, _, _, _)
SumOver(field, entries, bySource, maskFn) ==
  IF entries = <<>> THEN 0
  ELSE (IF Head(entries).apiKey = "" THEN 0
        ELSE IF field = "success"
               THEN ClaimedKeyStats(Head(entries).apiKey, bySource, maskFn).success
               ELSE ClaimedKeyStats(Head(entries).apiKey, bySource, maskFn).failure)
       + SumOver(field, Tail(entries), bySource, maskFn)

\* C15: getOpenAIProviderStats returns the component-wise sum, over the
\* entries that have a non-empty apiKey, of the bucket of that key; an
\* undefined or empty list gives the zero bucket.
ProviderStatsIsSum ==
  pureResult.fn = "getOpenAIProviderStats" =>
    LET entries == pureCall.apiKeyEntries
        bySource == pureCall.keyStats.bySource
    IN /\ pureResult.value.success = SumOver("success", entries.list, bySource, pureCall.maskFn)
       /\ pureResult.value.failure = SumOver("failure", entries.list, bySource, pureCall.maskFn)
       /\ (~entries.defined \/ entries.list = <<>>) => pureResult.value = ZeroBucket

\* C15 witness: an entry without key (whose masked form has a bucket) and
\* an entry with a key whose bucket is under its masked form: the sum is
\* the second entry's bucket.
KeylessEntryContributedNothing ==
  /\ pureResult.fn = "getOpenAIProviderStats"
  /\ pureCall.apiKeyEntries.defined
  /\ Len(pureCall.apiKeyEntries.list) = 2
  /\ pureCall.apiKeyEntries.list[1].apiKey = ""
  /\ pureCall.apiKeyEntries.list[2].apiKey = "sk-1"
  /\ pureCall.maskFn[""] = "sk-***" /\ pureCall.maskFn["sk-1"] = "sk-***"
  /\ Holds(pureCall.keyStats.bySource, "sk-***")
  /\ ~Holds(pureCall.keyStats.bySource, "sk-1")
  /\ pureCall.keyStats.bySource.map["sk-***"] = [success |-> 5, failure |-> 1]
  /\ pureResult.value = [success |-> 5, failure |-> 1]

\* C16: the Codex remaining percent of a finite used_percent is
\* clamp(0, 100, 100 - used_percent), in the page and in the quota-card
\* revision alike; of a used_percent that is absent or no finite number it
\* is null.
RemainingIsClampedComplement ==
  pureResult.fn \in {"remainingPercentFromUsedPercent", "remainingFromUsedPercent"} =>
    IF pureCall.used.type = "number"
      THEN LET left == 1000 - pureCall.used.num
           IN pureResult.value = Num(IF left < 0 THEN 0 ELSE IF left > 1000 THEN 1000 ELSE left)
      ELSE pureResult.value = Null

\* Whether the identifier resolves to the i-th model of the payload: by its key, or,
\* when no model has that key, as the first model whose display name equals the
\* identifier up to letter case.
NameMatches(entry, identifier) ==
  /\ entry.displayName.type = "string"
  /\ ToLowerCase(entry.displayName.text) = ToLowerCase(identifier)

ResolvesTo(models, identifier, i) ==
  \/ models[i].key = identifier
  \/ /\ \A j \in 1..Len(models) : models[j].key # identifier
     /\ NameMatches(models[i].entry, identifier)
     /\ \A j \in 1..(i - 1) : ~NameMatches(models[j].entry, identifier)

\* The models of the payload that an identifier of the catalog group resolves to and that
\* carry a remaining fraction the parser accepts.
WithFraction(models, def) ==
  {i \in 1..Len(models) :
     /\ \E k \in 1..Len(def.identifiers) : ResolvesTo(models, def.identifiers[k], i)
     /\ getAntigravityQuotaInfo(models[i].entry).remainingFraction # Null}

FractionAt(models, i) == getAntigravityQuotaInfo(models[i].entry).remainingFraction.num

\* C17: for every models payload and every catalog group, when some identifier of the
\* group resolves to a model with a parseable remaining fraction the group is emitted once,
\* its remainingFraction is the minimum of those fractions and its models list names exactly
\* those models; when none does, the group is absent from the output.
GroupsConsolidated ==
  pureResult.fn = "buildAntigravityQuotaGroups" =>
    \A g \in 1..Len(ANTIGRAVITY_QUOTA_GROUPS) :
      LET def == ANTIGRAVITY_QUOTA_GROUPS[g]
          models == pureCall.models
          constituents == WithFraction(models, def)
          emitted == {n \in 1..Len(pureResult.value) : pureResult.value[n].id = def.id}
      IN IF constituents = {} THEN emitted = {}
         ELSE /\ Cardinality(emitted) = 1
              /\ \A n \in emitted :
                   LET group == pureResult.value[n]
                   IN /\ \E i \in constituents : group.remainingFraction = FractionAt(models, i)
                      /\ \A i \in constituents : group.remainingFraction <= FractionAt(models, i)
                      /\ {group.models[m] : m \in 1..Len(group.models)}
                           = {models[i].key : i \in constituents}

\* The Gemini group is built from a model found by display name and one found by key, and
\* shows the smaller of their two fractions.
MinOverNamedAndExactMatch ==
  /\ pureResult.fn = "buildAntigravityQuotaGroups"
  /\ \E n \in 1..Len(pureResult.value) :
       /\ pureResult.value[n].id = "gemini"
       /\ pureResult.value[n].models = <<"model-x", "gemini-2.5-flash">>
       /\ pureResult.value[n].remainingFraction = 2
  /\ \E i \in 1..Len(pureCall.models) : FractionAt(pureCall.models, i) = 7

\* The first non-empty reset time among the models an emitted group lists.
OwnResetTime(models, group) ==
  LET resetAt(m) ==
        LET i == CHOOSE i \in 1..Len(models) : models[i].key = group.models[m]
        IN getAntigravityQuotaInfo(models[i].entry).resetTime
      set == {m \in 1..Len(group.models) :
                resetAt(m).type = "string" /\ resetAt(m).str # <<>>}
  IN IF set = {} THEN Undefined ELSE resetAt(CHOOSE m \in set : \A o \in set : m <= o)

EmittedResetTime(groups, id) ==
  IF \E n \in 1..Len(groups) : groups[n].id = id
  THEN (groups[CHOOSE n \in 1..Len(groups) : groups[n].id = id]).resetTime
  ELSE Undefined

\* C18: the reset time of an emitted group is the first non-empty reset time among its
\* matched models; the image group takes the Gemini group's reset time only when its own
\* matched models carry none.
GroupResetTimeIsOwnFirst ==
  pureResult.fn = "buildAntigravityQuotaGroups" =>
    \A n \in 1..Len(pureResult.value) :
      LET group == pureResult.value[n]
          own == OwnResetTime(pureCall.models, group)
      IN group.resetTime =
           IF own # Undefined THEN own
           ELSE IF group.id = "gemini-image"
                THEN EmittedResetTime(pureResult.value, "gemini")
                ELSE Undefined

\* The original list with the entry of every refreshed auth id replaced by the record last
\* returned for it, and without the files that were removed.
ExpectedFiles ==
  SelectSeq([i \in 1..Len(InitialFiles) |->
               LET f == InitialFiles[i]
               IN IF returnedRecord[AuthIdOf(f)] # NoRecord
                  THEN returnedRecord[AuthIdOf(f)] ELSE f],
            LAMBDA f : f.name \notin removedNames)

\* C19: whatever the order in which the responses of quota refreshes and enable/disable
\* toggles arrive, the file list is the original list with each refreshed entry replaced
\* wholesale by the record returned for it; the other entries, the length and the order
\* are kept, and a file removed while its refresh was pending is not put back. (Stated
\* for the responses that carry a record; one without a record reloads the whole list.)
IdentityReplaceOrderIndependent ==
  ~reloadApplied => fileList = ExpectedFiles

\* The first file was toggled, the last one refreshed, and a record came back for the
\* removed middle file without bringing it back.
ReplacedAroundRemovedFile ==
  /\ ~reloadApplied
  /\ removedNames = {"b.json"}
  /\ returnedRecord["b.json"] # NoRecord
  /\ Len(fileList) = 2
  /\ fileList[1].body = "toggled"
  /\ fileList[2].body = "refreshed"

\* C20: in one page session the 'upgrade required' warning is shown at most once,
\* however many loadExcluded calls are answered with HTTP 404.
UpgradeWarningShownAtMostOnce ==
  warningsShown <= 1

\* The names of the list carry no newline and no comma.
PlainNames(list) ==
  \A i \in 1..Len(list) : \A k \in 1..Len(list[i]) : list[i][k] \notin {"\n", ","}

\* The name without its leading and trailing blanks.
Stripped(name) ==
  LET inked == {k \in 1..Len(name) : name[k] # " " /\ name[k] # "\n"}
  IN IF inked = {} THEN <<>>
     ELSE SubSeq(name, CHOOSE k \in inked : \A o \in inked : k <= o,
                 CHOOSE k \in inked : \A o \in inked : k >= o)

\* C21 as stated: for every list of names without newline and comma,
\* parseExcludedModels(excludedModelsToText(list)) is the list of the trimmed names, in
\* order and with duplicates.
RoundTripReproducesList ==
  (pureResult.fn = "excludedModelsRoundTrip" /\ pureCall.models.defined
     /\ PlainNames(pureCall.models.list))
  => pureResult.value = [i \in 1..Len(pureCall.models.list) |-> Stripped(pureCall.models.list[i])]

\* C21, amended: the same for lists whose names are, besides, not blank.
RoundTripReproducesNonBlankNames ==
  (pureResult.fn = "excludedModelsRoundTrip" /\ pureCall.models.defined
     /\ PlainNames(pureCall.models.list)
     /\ \A i \in 1..Len(pureCall.models.list) : Stripped(pureCall.models.list[i]) # <<>>)
  => pureResult.value = [i \in 1..Len(pureCall.models.list) |-> Stripped(pureCall.models.list[i])]

\* A padded name and its duplicate came back trimmed, both of them.
PaddedDuplicateCameBack ==
  /\ pureResult.fn = "excludedModelsRoundTrip"
  /\ pureCall.models.list = << <<" ", "m">>, <<"m", " ">> >>
  /\ pureResult.value = << <<"m">>, <<"m">> >>

\* The response was a 2xx one.
Answered2xx(o) == o.kind = "resolved" /\ o.statusCode \in 200..299

\* What the catch block was given: the rejection, or the error thrown for a response
\* outside 2xx.
CaughtError(o) == o.error

\* The text holds the word, letter for letter / in any letter case.
HoldsWord(text, word) ==
  \E i \in 1..Len(text) : i + Len(word) - 1 <= Len(text)
                          /\ \A k \in 1..Len(word) : text[i + k - 1] = word[k]

SameLetter(a, b) ==
  \/ a = b
  \/ <<a, b>> \in { <<"T", "t">>, <<"I", "i">>, <<"M", "m">>, <<"E", "e">>, <<"O", "o">>, <<"U", "u">> }

HoldsWordAnyCase(text, word) ==
  \E i \in 1..Len(text) : i + Len(word) - 1 <= Len(text)
                          /\ \A k \in 1..Len(word) : SameLetter(text[i + k - 1], word[k])

NamedTimeout(err) == err.code = "ECONNABORTED" \/ HoldsWord(err.message, TimeoutText)

NamedTimeoutAnyCase(err) ==
  err.code = "ECONNABORTED" \/ HoldsWordAnyCase(err.message, TimeoutText)

\* A settling request leaves 'success' exactly for a 2xx response and 'error' otherwise,
\* with the timeout message exactly for the errors TimedOut names and the generic
\* failure message for every other error.
TestSettlesAs(TimedOut(_)) ==
  testsInFlight' < testsInFlight =>
    LET o == lastTestOutcome'
    IN /\ openaiTestStatus' # "loading"
       /\ openaiTestStatus' = "success" <=> Answered2xx(o)
       /\ ~Answered2xx(o) =>
            /\ openaiTestStatus' = "error"
            /\ TimedOut(CaughtError(o)) => openaiTestMessage' = TimeoutMessage
            /\ ~TimedOut(CaughtError(o)) =>
                 /\ openaiTestMessage'.key = "ai_providers.openai_test_failed"
                 /\ openaiTestMessage' # TimeoutMessage

\* C22 as stated: the test is 'loading' only while a request of it is unsettled; a
\* settling request leaves 'success' only for a 2xx response and 'error' otherwise; an
\* error with code ECONNABORTED or a message containing 'timeout' ends with the timeout
\* message, every other error with the generic failure message.
TimeoutNeverSwallowed ==
  /\ [](openaiTestStatus = "loading" => testsInFlight > 0)
  /\ [][TestSettlesAs(NamedTimeout)]_vars

\* C22, amended: the same, the word 'timeout' being looked for in any letter case.
TimeoutNeverSwallowedAnyCase ==
  /\ [](openaiTestStatus = "loading" => testsInFlight > 0)
  /\ [][TestSettlesAs(NamedTimeoutAnyCase)]_vars

\* A rejection without code whose message says 'Timeout' ended the test with the
\* timeout message.
CapitalisedTimeoutReported ==
  /\ lastTestOutcome.kind = "rejected"
  /\ lastTestOutcome.error = TestError("", <<"T", "i", "m", "e", "o", "u", "t">>)
  /\ openaiTestStatus = "error"
  /\ openaiTestMessage = TimeoutMessage
  /\ testsInFlight = 0

\* C23: shouldShowOAuthCallbackInput(provider, authUrl) is true exactly when provider is one
\* of codex, anthropic, antigravity, gemini-cli, kiro and authUrl is a non-empty string:
\* false for every provider without auth URL, false for the other providers even with one.
CallbackInputOnlyWhereSupported ==
  pureResult.fn = "shouldShowOAuthCallbackInput" =>
    /\ pureResult.value <=>
         /\ pureCall.provider \in {"codex", "anthropic", "antigravity", "gemini-cli", "kiro"}
         /\ pureCall.authUrl.type = "string"
         /\ Len(pureCall.authUrl.str) > 0
    /\ pureCall.authUrl.type = "undefined" => ~pureResult.value
    /\ pureCall.provider = "qwen" => ~pureResult.value

\* kiro without auth URL was refused, as the test expects.
KiroWithoutUrlRefused ==
  /\ pureResult.fn = "shouldShowOAuthCallbackInput"
  /\ pureCall.provider = "kiro"
  /\ pureCall.authUrl = Undefined
  /\ pureResult.value = FALSE

\* C24: the keys of the Antigravity quota map are names of antigravity files of the file
\* list: the cell of a file that left the list is pruned and no later event, the end of a
\* batch refresh included, puts it back.
QuotaKeysAreListedFiles == DOMAIN antigravityQuota \subseteq antigravityFiles

\* C25: once every overlapping loadFiles has settled, the file list is the response of
\* the list request issued last (when that request was answered), and the loading flag is
\* true exactly while a list request is in flight.
ListFollowsLatestRequest ==
  LET last == listRequests[Len(listRequests)]
  IN /\ ((\A k \in DOMAIN listRequests : ~Unsettled(k)) /\ last.status = "resolved")
          => shownFiles = last.response
     /\ shownLoading <=> \E k \in DOMAIN listRequests : Unsettled(k)

\* What the list shows for a key: "enabled", "disabled", or "absent".
ShownAs(lists, k) ==
  LET rows == {i \in 1..Len(lists[k[1]]) : lists[k[1]][i].apiKey = k[2]}
  IN IF rows = {} THEN "absent"
     ELSE IF \A i \in rows : \E j \in 1..Len(lists[k[1]][i].excludedModels.list) :
                lists[k[1]][i].excludedModels.defined
                /\ lists[k[1]][i].excludedModels.list[j] \in {<<"*">>, <<" ", "*">>}
          THEN "disabled" ELSE "enabled"

SwitchStarts == switchCall = NoSwitch /\ switchCall' # NoSwitch
SwitchSettles == switchCall # NoSwitch /\ switchCall' = NoSwitch

\* The toggle touches one row of one list, and of that row the excludedModels only.
TouchesOnlyExcludedModels ==
  SwitchStarts =>
    LET p == switchCall'.provider
        i == switchCall'.index
    IN /\ \A q \in ConfigProviders \ {p} :
            providerKeys'[q] = providerKeys[q] /\ configStore'[q] = configStore[q]
       /\ Len(providerKeys'[p]) = Len(providerKeys[p])
       /\ configStore'[p] = providerKeys'[p]
       /\ \A j \in 1..Len(providerKeys[p]) :
            /\ providerKeys'[p][j].apiKey = providerKeys[p][j].apiKey
            /\ providerKeys'[p][j].baseUrl = providerKeys[p][j].baseUrl
            /\ j # i => providerKeys'[p][j].excludedModels = providerKeys[p][j].excludedModels
       /\ ShownAs(providerKeys', <<p, providerKeys[p][i].apiKey>>)
            = IF switchCall'.enabled THEN "enabled" ELSE "disabled"

\* A failed save leaves the list of the state and of the store as they were before the
\* toggle, and the effect of every toggle saved before it where it was.
FailureRestores ==
  (SwitchSettles /\ lastSwitch'.outcome = "failed") =>
    LET p == switchCall.provider
        toggled == <<p, switchCall.previousList[switchCall.index].apiKey>>
    IN /\ providerKeys'[p] = switchCall.previousList
       /\ configStore'[p] = switchCall.storeBefore
       /\ \A q \in ConfigProviders \ {p} :
            providerKeys'[q] = providerKeys[q] /\ configStore'[q] = configStore[q]
       /\ \A k \in ConfigKeys \ {toggled} :
            (savedToggles[k] # "none" /\ ShownAs(providerKeys, k) = savedToggles[k])
              => ShownAs(providerKeys', k) = savedToggles[k]

\* C26: setConfigEnabled is an optimistic update with rollback: it changes only the
\* excludedModels of the entry at the index; when the save fails the list of the state
\* and of the store are again the list from before the toggle; configSwitchingKey is null
\* once the save has settled either way and set only while one is under way; a toggle
\* that fails discards no effect of a toggle that was saved.
ToggleRollsBack ==
  /\ [][TouchesOnlyExcludedModels]_vars
  /\ [][FailureRestores]_vars
  /\ [][SwitchSettles => configSwitchingKey' = "null"]_vars
  /\ [](configSwitchingKey # "null" <=> switchCall # NoSwitch)

\* A toggle failed after the toggle of another key had been saved, whose effect shows.
FailedAfterSavedToggle ==
  /\ lastSwitch.outcome = "failed"
  /\ switchCall = NoSwitch
  /\ providerKeys["gemini"] = lastSwitch.call.previousList
  /\ lastSwitch.call.provider = "gemini"
  /\ lastSwitch.call.index = 2
  /\ savedToggles[<<"gemini", "g1">>] = "disabled"
  /\ ShownAs(providerKeys, <<"gemini", "g1">>) = "disabled"

\* The files the backend marks runtime-only: f2 by the boolean, f3 by the string ' TRUE'.
RuntimeOnlyNames == {"f2", "f3"}

SingleDeleteSettles(n) == singleDeletes'[n] < singleDeletes[n]

FilteredDeleteAllEnds == deleteAllCall.phase = "loop" /\ deleteAllCall' = NoDeleteAll
DeleteAllEnds == deleteAllCall.phase # "idle" /\ deleteAllCall' = NoDeleteAll

\* handleDelete: the file leaves the list only with its own successful delete; a failed
\* delete leaves the list alone and shows the error; the marker is null afterwards.
SingleDeleteOnlyAfterSuccess ==
  \A n \in PageFileNames :
    SingleDeleteSettles(n) =>
      /\ lastDeleteSettled'.name = n
      /\ lastDeleteSettled'.ok => listedFiles' = listedFiles \ {n}
      /\ ~lastDeleteSettled'.ok =>
           listedFiles' = listedFiles /\ lastNotification' = "notification.delete_failed"
      /\ deletingMarker' = "null"

\* The filtered delete-all removes the files whose own delete succeeded, and only them.
FilteredRemovesTheDeleted ==
  FilteredDeleteAllEnds =>
    /\ listedFiles' = {n \in listedFiles : filteredOutcomes'[n] # "ok"}
    /\ \A n \in listedFiles : filteredOutcomes'[n] = "failed" => n \in listedFiles'

\* Neither delete-all branch removes a runtime-only file, nor asks the backend to.
DeleteAllSparesRuntimeOnly ==
  /\ DeleteAllEnds => \A n \in listedFiles \cap RuntimeOnlyNames : n \in listedFiles'
  /\ \A n \in RuntimeOnlyNames : filteredOutcomes'[n] = "none"

\* C27: handleDelete removes a file from the list only after the backend delete for it
\* succeeded; when it fails the list is unchanged and an error is notified; 'deleting' is
\* null once the request settled. The filtered delete-all removes exactly the files whose
\* own delete succeeded, those that failed stay, and no delete-all removes a runtime-only
\* file.
DeletesFollowTheBackend ==
  /\ [][SingleDeleteOnlyAfterSuccess]_vars
  /\ [][FilteredRemovesTheDeleted]_vars
  /\ [][DeleteAllSparesRuntimeOnly]_vars

\* A filtered delete-all of the codex files ended with one delete failed: f1 is gone, f4
\* and the runtime-only f2 and f3 are listed.
FilteredPartlyFailed ==
  /\ lastNotification = "auth_files.delete_filtered_partial"
  /\ deleteAllCall = NoDeleteAll
  /\ filteredOutcomes["f1"] = "ok"
  /\ filteredOutcomes["f4"] = "failed"
  /\ listedFiles = {"f2", "f3", "f4", "f5"}

\* The pages the filtered list needs: the least n >= 1 with n pages holding every item.
PagesNeeded ==
  CHOOSE n \in 1..(NumPagerFiles + 1) :
    /\ n * pageSize >= Len(filtered)
    /\ n > 1 => (n - 1) * pageSize < Len(filtered)

\* C28: pagination stays in range: 1 <= currentPage <= totalPages with
\* totalPages = max(1, ceil(|filtered| / pageSize)), and the slice displayed is not empty
\* when the filtered list is not.
PaginationInRange ==
  /\ pageSize >= 1
  /\ totalPages = PagesNeeded
  /\ 1 <= currentPage
  /\ currentPage <= totalPages
  /\ Len(filtered) > 0 => Len(pageItems) > 0
  /\ \A k \in 1..Len(pageItems) : pageItems[k] \in cardList

\* The page of the state lies past the last page, after deletions, and the last page is
\* displayed.
StalePageClamped ==
  /\ page = 3
  /\ totalPages = 2
  /\ currentPage = 2
  /\ Len(pageItems) > 0

\* C29: a close click on the open modal is answered by one onClose, invoked when the close
\* timer fires: until then the timer of the click stays set, whatever clicks and parent
\* renders come in between; clicks during the animation set no second timer; onClose is
\* invoked only for a close that a click began, not for one the parent began.
ClickedCloseIsAnswered ==
  /\ [](awaitingClose => (closeTimerRef # NoTimer /\ closeTimerRef.notifyParent))
  /\ [][onCloseCalls' # onCloseCalls =>
          (awaitingClose /\ ~awaitingClose' /\ onCloseCalls' = onCloseCalls + 1)]_vars
  /\ [][(closeTimerRef # NoTimer /\ closeTimerRef' # NoTimer) =>
          closeTimerRef' = closeTimerRef]_vars

\* The save under way began with the config not loaded and the mappings not edited.
SavingUnseenMappings == saveCall.stage # "idle" /\ ~saveCall.loaded /\ ~saveCall.dirty

SaveEnds == saveCall.stage # "idle" /\ saveCall' = NoSave

\* C30: a save begun while the Ampcode config was not loaded and the mappings not edited
\* calls neither saveModelMappings nor clearModelMappings, leaves the backend's mappings
\* alone and, when it succeeds, keeps the mappings the store knew; a save begun not loaded
\* but edited writes the mappings only after the user confirmed.
UnseenMappingsNeverOverwritten ==
  /\ [][SavingUnseenMappings =>
          /\ mappingWrites' = mappingWrites
          /\ serverMappings' = serverMappings
          /\ (SaveEnds /\ ~ampcodeModal') => storeMappings' = saveCall.previous]_vars
  /\ [][mappingWrites' # mappingWrites =>
          (saveCall.loaded \/ (saveCall.dirty /\ saveCall.confirmed))]_vars

\* A save of the form that never loaded and was not edited has passed the mappings
\* request without making it: the form held the cached list, the backend holds another.
UnseenSavePastMappings ==
  /\ SavingUnseenMappings
  /\ saveCall.stage = "upstreamApiKey"
  /\ mappingWrites = 0
  /\ saveCall.mappings = "cached"
  /\ serverMappings = "server"

====
